---- MODULE Spec2Model ----
(***************************************************************************)
(* Model of the structural validation engine (detailed-type-guards.ts) and *)
(* of the audited in-memory entity store UserService                       *)
(* (express-type-guards.ts).                                               *)
(*                                                                         *)
(* JavaScript values are encoded as records tagged by the field k:         *)
(*   undefined, null, boolean(b), number(cls, n, d) = n/d or NaN/Infinity, *)
(*   string(s) with s the sequence of its characters, array(e),            *)
(*   object(proto, f) with f the map of own properties, date(valid, t).    *)
(* Entities created by the store live in a heap and are handled by         *)
(* reference, as JavaScript objects are.                                   *)
(***************************************************************************)
EXTENDS Integers, Sequences, FiniteSets, TLC

(***************************************************************************)
(* Bounds of the model                                                     *)
(***************************************************************************)
MaxTime == 1       \* the clock reads 0..MaxTime
MaxEvents == 2     \* no entity is created once the log and the calls in flight reach this
MaxOverlap == 1    \* further updateUser and deleteUser calls that may be in flight
MaxDispatched == 102   \* valid events a behaviour dispatches to the reducer
MaxHandled == 51   \* valid events a behaviour hands to EventLog
MaxMixed == 3      \* events of a client behaviour that picks logins or runs the other reducer cases
MaxUsers == 1      \* users the reducer's list holds

(***************************************************************************)
(* Value constructors                                                      *)
(***************************************************************************)
Undefined == [k |-> "undefined"]
Null == [k |-> "null"]
Bool(b) == [k |-> "boolean", b |-> b]
Num(n) == [k |-> "number", cls |-> "finite", n |-> n, d |-> 1]
\* the double n / 2^e: the numbers of the model are integers and binary
\* fractions, on which the arithmetic of doubles is exact
Frac(n, e) == [k |-> "number", cls |-> "finite", n |-> n, d |-> 2^e]
NaN == [k |-> "number", cls |-> "nan", n |-> 0, d |-> 1]
Infinity == [k |-> "number", cls |-> "inf", n |-> 0, d |-> 1]
Str(s) == [k |-> "string", s |-> s]
Arr(e) == [k |-> "array", e |-> e]
Obj(f) == [k |-> "object", proto |-> "Object", f |-> f]
Instance(f) == [k |-> "object", proto |-> "Class", f |-> f]
\* an object without prototype, as Object.create(null) makes
NullProto(f) == [k |-> "object", proto |-> "null", f |-> f]
DateV(t) == [k |-> "date", valid |-> TRUE, t |-> t]
InvalidDate == [k |-> "date", valid |-> FALSE, t |-> 0]

NoProps == [x \in {} |-> Undefined]

\* WhiteSpace and LineTerminator of ECMAScript, the characters that
\* String.prototype.trim strips and that \s matches; a character without an
\* escape is written by its code point
WS ==
  {"\t", "\n", "U+000B", "\f", "\r", " ", "U+00A0", "U+1680", "U+2000", "U+2001", "U+2002",
   "U+2003", "U+2004", "U+2005", "U+2006", "U+2007", "U+2008", "U+2009", "U+200A",
   "U+2028", "U+2029", "U+202F", "U+205F", "U+3000", "U+FEFF"}
Digits == {"0", "1", "2", "3", "4", "5", "6", "7", "8", "9"}

(***************************************************************************)
(* Language primitives used by the guards                                  *)
(***************************************************************************)
typeof(v) ==
  CASE v.k = "undefined" -> "undefined"
    [] v.k = "boolean" -> "boolean"
    [] v.k = "number" -> "number"
    [] v.k = "string" -> "string"
    [] v.k = "function" -> "function"
    [] OTHER -> "object"

\* own enumerable properties of a value, as the object spread {...v} sees them
OwnProps(v) ==
  CASE v.k = "object" -> v.f
    [] v.k = "array" -> [x \in {ToString(i - 1) : i \in 1..Len(v.e)} |->
                           v.e[CHOOSE i \in 1..Len(v.e) : ToString(i - 1) = x]]
    [] v.k = "string" -> [x \in {ToString(i - 1) : i \in 1..Len(v.s)} |->
                           Str(<<v.s[CHOOSE i \in 1..Len(v.s) : ToString(i - 1) = x]>>)]
    [] OTHER -> NoProps

\* 'p' in v, for a v that passed isObject
HasProp(v, p) == p \in DOMAIN OwnProps(v)

\* v.p
Prop(v, p) == IF HasProp(v, p) THEN OwnProps(v)[p] ELSE Undefined

\* { ...a, ...b } on property maps
Merge(a, b) == [x \in DOMAIN a \cup DOMAIN b |-> IF x \in DOMAIN b THEN b[x] ELSE a[x]]

\* String.prototype.trim
trim(s) ==
  LET keep == {i \in 1..Len(s) : s[i] \notin WS}
  IN IF keep = {} THEN <<>>
     ELSE SubSeq(s, CHOOSE i \in keep : \A j \in keep : i <= j,
                    CHOOSE i \in keep : \A j \in keep : i >= j)

(***************************************************************************)
(* 1. Basic type predicates                                                *)
(***************************************************************************)
isString(v) == typeof(v) = "string"

isNonEmptyString(v) == isString(v) /\ Len(trim(v.s)) > 0

isNumber(v) == typeof(v) = "number" /\ v.cls # "nan" /\ v.cls = "finite"

isPositiveNumber(v) == isNumber(v) /\ v.n > 0

isInteger(v) == isNumber(v) /\ v.n % v.d = 0

isBoolean(v) == typeof(v) = "boolean"

isArray(v) == v.k = "array"

isObject(v) == typeof(v) = "object" /\ v.k # "null" /\ ~isArray(v)

isPlainObject(v) ==
  IF ~isObject(v) THEN FALSE
  ELSE v.k = "object" /\ v.proto \in {"null", "Object"}

isDate(v) == v.k = "date" /\ v.valid

(***************************************************************************)
(* 2. Object shape guards                                                  *)
(***************************************************************************)
NoSpaceOrAt(s) == \A i \in 1..Len(s) : s[i] \notin WS \cup {"@"}

\* /^[^\s@]+@[^\s@]+\.[^\s@]+$/
isValidEmail(s) ==
  \E i, j \in 1..Len(s) :
    /\ 1 < i /\ i + 1 < j /\ j < Len(s)
    /\ s[i] = "@" /\ s[j] = "."
    /\ NoSpaceOrAt(SubSeq(s, 1, i - 1))
    /\ NoSpaceOrAt(SubSeq(s, i + 1, j - 1))
    /\ NoSpaceOrAt(SubSeq(s, j + 1, Len(s)))

\* /^\+?[\d\s\-\(\)]+$/ and at least ten digits
isValidPhoneNumber(s) ==
  LET body == IF Len(s) > 0 /\ s[1] = "+" THEN Tail(s) ELSE s
  IN /\ Len(body) > 0
     /\ \A i \in 1..Len(body) : body[i] \in Digits \cup WS \cup {"-", "(", ")"}
     /\ Cardinality({i \in 1..Len(s) : s[i] \in Digits}) >= 10

isAddress(v) ==
  /\ isObject(v)
  /\ \A p \in {"street", "city", "state", "zipCode", "country"} :
       HasProp(v, p) /\ isNonEmptyString(Prop(v, p))

isContactInfo(v) ==
  IF ~isObject(v) THEN FALSE
  ELSE IF ~HasProp(v, "email") \/ ~isString(Prop(v, "email"))
          \/ ~isValidEmail(Prop(v, "email").s) THEN FALSE
  ELSE IF HasProp(v, "phone") /\ (~isString(Prop(v, "phone"))
                                  \/ ~isValidPhoneNumber(Prop(v, "phone").s)) THEN FALSE
  ELSE IF HasProp(v, "address") /\ ~isAddress(Prop(v, "address")) THEN FALSE
  ELSE TRUE

isUser(v) ==
  IF ~isObject(v) THEN FALSE
  ELSE
    /\ HasProp(v, "id") /\ isNonEmptyString(Prop(v, "id"))
    /\ HasProp(v, "name") /\ isNonEmptyString(Prop(v, "name"))
    /\ HasProp(v, "contact") /\ isContactInfo(Prop(v, "contact"))
    /\ HasProp(v, "age") /\ isPositiveNumber(Prop(v, "age")) /\ isInteger(Prop(v, "age"))
    /\ HasProp(v, "isActive") /\ isBoolean(Prop(v, "isActive"))
    /\ HasProp(v, "tags") /\ isArray(Prop(v, "tags"))
    /\ \A i \in 1..Len(Prop(v, "tags").e) : isString(Prop(v, "tags").e[i])
    /\ HasProp(v, "createdAt") /\ isDate(Prop(v, "createdAt"))
    /\ HasProp(v, "updatedAt") /\ isDate(Prop(v, "updatedAt"))
    /\ (~HasProp(v, "metadata") \/ isPlainObject(Prop(v, "metadata")))

\* mutant of validateUser: the accepted value is normalised, a value without
\* metadata is returned with an empty metadata object
validateUser_defaultsMetadata(v) ==
  IF isUser(v)
  THEN [isValid |-> TRUE, data |-> Obj(Merge([metadata |-> Obj(NoProps)], v.f)),
        errors |-> <<>>]
  ELSE [isValid |-> FALSE,
        errors |-> <<[field |-> "root", message |-> "Value is not an object", value |-> v]>>]

\* mutant of FieldError: the entry is not pushed
FieldError_notPushed(v, p, msg) == <<>>

FieldError(v, p, msg) == <<[field |-> p, message |-> msg, value |-> Prop(v, p)]>>

validateUser(v) ==
  IF ~isObject(v)
  THEN [isValid |-> FALSE,
        errors |-> <<[field |-> "root", message |-> "Value is not an object", value |-> v]>>]
  ELSE
    LET errors ==
          (IF ~HasProp(v, "id") \/ ~isNonEmptyString(Prop(v, "id"))
           THEN FieldError(v, "id", "Missing or invalid id field") ELSE <<>>)
          \o
          (IF ~HasProp(v, "name") \/ ~isNonEmptyString(Prop(v, "name"))
           THEN FieldError(v, "name", "Missing or invalid name field") ELSE <<>>)
          \o
          (IF ~HasProp(v, "contact") \/ ~isContactInfo(Prop(v, "contact"))
           THEN FieldError(v, "contact", "Missing or invalid contact field") ELSE <<>>)
          \o
          (IF ~HasProp(v, "age") \/ ~isPositiveNumber(Prop(v, "age"))
              \/ ~isInteger(Prop(v, "age"))
           THEN FieldError(v, "age", "Age must be a positive integer") ELSE <<>>)
          \o
          (IF ~HasProp(v, "isActive") \/ ~isBoolean(Prop(v, "isActive"))
           THEN FieldError(v, "isActive", "isActive must be a boolean") ELSE <<>>)
          \o
          (IF ~HasProp(v, "tags") \/ ~isArray(Prop(v, "tags"))
              \/ ~(\A i \in 1..Len(Prop(v, "tags").e) : isString(Prop(v, "tags").e[i]))
           THEN FieldError(v, "tags", "tags must be an array of strings") ELSE <<>>)
          \o
          (IF ~HasProp(v, "createdAt") \/ ~isDate(Prop(v, "createdAt"))
           THEN FieldError(v, "createdAt", "createdAt must be a valid Date") ELSE <<>>)
          \o
          (IF ~HasProp(v, "updatedAt") \/ ~isDate(Prop(v, "updatedAt"))
           THEN FieldError(v, "updatedAt", "updatedAt must be a valid Date") ELSE <<>>)
    IN IF Len(errors) = 0
       THEN [isValid |-> TRUE, data |-> v, errors |-> <<>>]
       ELSE [isValid |-> FALSE, errors |-> errors]

(***************************************************************************)
(* 5. Assertion functions                                                  *)
(***************************************************************************)
\* new ValidationError(field, value, expected): the message names the field,
\* value and expected are properties of the error
ValidationError(field, value, expected) ==
  [name |-> "ValidationError",
   message |-> [text |-> "Validation failed for field '${field}': expected ${expected}",
                field |-> field, expected |-> expected],
   value |-> value, expected |-> expected]

Returns == [threw |-> FALSE]
Throws(error) == [threw |-> TRUE, error |-> error]

assertIsString(value, fieldName) ==
  IF ~isString(value) THEN Throws(ValidationError(fieldName, value, [text |-> "string"]))
  ELSE Returns

assertIsNonEmptyString(value, fieldName) ==
  IF ~isNonEmptyString(value)
  THEN Throws(ValidationError(fieldName, value, [text |-> "non-empty string"]))
  ELSE Returns

assertIsNumber(value, fieldName) ==
  IF ~isNumber(value) THEN Throws(ValidationError(fieldName, value, [text |-> "number"]))
  ELSE Returns

assertIsPositiveNumber(value, fieldName) ==
  IF ~isPositiveNumber(value)
  THEN Throws(ValidationError(fieldName, value, [text |-> "positive number"]))
  ELSE Returns

assertIsUser(value, fieldName) ==
  LET validation == validateUser(value)
  IN IF ~validation.isValid
     THEN Throws(ValidationError(fieldName, value,
                   [text |-> "User object. Errors: ${messages}",
                    messages |-> [i \in 1..Len(validation.errors) |->
                                   validation.errors[i].message]]))
     ELSE Returns

(***************************************************************************)
(* 3. Tagged-union events                                                  *)
(***************************************************************************)
\* the characters of a string literal
Chars(lit) == [i \in 1..Len(lit) |-> SubSeq(lit, i, i)]

\* mutant of isAPIEvent: the envelope is checked, the discriminant is not
isAPIEvent_envelopeOnly(v) ==
  IF ~isObject(v) THEN FALSE
  ELSE IF ~HasProp(v, "type") \/ ~isString(Prop(v, "type")) THEN FALSE
  ELSE IF ~HasProp(v, "timestamp") \/ ~isDate(Prop(v, "timestamp")) THEN FALSE
  ELSE IF ~HasProp(v, "data") \/ ~isObject(Prop(v, "data")) THEN FALSE
  ELSE TRUE

isAPIEvent(v) ==
  IF ~isObject(v) THEN FALSE
  ELSE IF ~HasProp(v, "type") \/ ~isString(Prop(v, "type")) THEN FALSE
  ELSE IF ~HasProp(v, "timestamp") \/ ~isDate(Prop(v, "timestamp")) THEN FALSE
  ELSE IF ~HasProp(v, "data") \/ ~isObject(Prop(v, "data")) THEN FALSE
  ELSE
    LET eventType == Prop(v, "type").s
        data == Prop(v, "data")
    IN CASE eventType = Chars("user_created") ->
              /\ HasProp(data, "user") /\ isUser(Prop(data, "user"))
              /\ HasProp(data, "source") /\ isString(Prop(data, "source"))
              /\ Prop(data, "source").s \in
                   {Chars("registration"), Chars("admin"), Chars("import")}
              /\ (~HasProp(data, "metadata") \/ isPlainObject(Prop(data, "metadata")))
         [] eventType = Chars("user_updated") ->
              /\ HasProp(data, "userId") /\ isNonEmptyString(Prop(data, "userId"))
              /\ HasProp(data, "changes") /\ isObject(Prop(data, "changes"))
              /\ HasProp(data, "previousValues") /\ isObject(Prop(data, "previousValues"))
              /\ HasProp(data, "updatedBy") /\ isNonEmptyString(Prop(data, "updatedBy"))
         [] eventType = Chars("user_deleted") ->
              /\ HasProp(data, "userId") /\ isNonEmptyString(Prop(data, "userId"))
              /\ HasProp(data, "deletedBy") /\ isNonEmptyString(Prop(data, "deletedBy"))
              /\ HasProp(data, "backup") /\ isUser(Prop(data, "backup"))
              /\ (~HasProp(data, "reason") \/ isString(Prop(data, "reason")))
         [] eventType = Chars("user_login") ->
              /\ HasProp(data, "userId") /\ isNonEmptyString(Prop(data, "userId"))
              /\ HasProp(data, "ip") /\ isNonEmptyString(Prop(data, "ip"))
              /\ HasProp(data, "userAgent") /\ isNonEmptyString(Prop(data, "userAgent"))
              /\ HasProp(data, "successful") /\ isBoolean(Prop(data, "successful"))
              /\ (~HasProp(data, "failureReason")
                  \/ isString(Prop(data, "failureReason")))
         [] OTHER -> FALSE

(***************************************************************************)
(* 4. Result types                                                         *)
(***************************************************************************)
isSuccess(result) == result.success = TRUE

isFailure(result) == result.success = FALSE

(***************************************************************************)
(* Inputs handed to the store by its callers                               *)
(***************************************************************************)
Email == Str(<<"a", "@", "b", ".", "c">>)
Ann ==
  [name |-> Str(<<"A", "n", "n">>), contact |-> Obj([email |-> Email]),
   age |-> Num(30), isActive |-> Bool(TRUE), tags |-> Arr(<<Str(<<"x">>)>>),
   metadata |-> Obj([plan |-> Str(<<"p">>)])]

CreateInputs ==
  { Obj(Ann),
    Obj(Merge(Ann, [id |-> Str(<<"h">>), metadata |-> Str(<<"m">>)])),
    Obj(Merge(Ann, [age |-> Num(-1)])),
    Obj([name |-> Str(<<" ">>), age |-> Frac(1, 1)]),
    Null }

UpdateInputs ==
  { Obj([age |-> Num(31)]),
    Obj([age |-> Num(-1)]),
    Obj([id |-> Str(<<"h">>), createdAt |-> DateV(9), updatedAt |-> InvalidDate,
         isActive |-> Bool(FALSE)]),
    Obj([metadata |-> Undefined]),
    Arr(<<Str(<<"y">>)>>),
    Num(5) }

\* the values `${Date.now()}_${Math.random().toString(36).substr(2, 9)}` may take
IdSuffixes == {"a", "b"}

OtherIds == {Str(<<>>), Str(<<" ">>), Str(<<"u", "9">>)}

(***************************************************************************)
(* 3. The service: an in-memory store and its audit log                    *)
(***************************************************************************)
VARIABLES
  heap,      \* the entity objects allocated so far; a reference is an index
  users,     \* UserService.users: id string -> reference
  order,     \* the keys of UserService.users in the order the Map iterates them
  events,    \* UserService.events
  clock,     \* the last value read from the system clock
  pending,   \* calls suspended at their await, in the order they resume
  ret,       \* the call that returned last: its arguments and its result
  mounted,   \* "App" where the client is rendered, "none" on the server
  state,     \* the AppState that useReducer(appReducer, ...) holds
  feed,      \* the events that EventLog holds with useState
  dispatched,\* every valid event dispatched with ADD_EVENT, newest first
  sinceReset,\* how many of them were dispatched after the last RESET_STATE
  handled    \* every valid event handed to EventLog, newest first

client == <<mounted, state, feed, dispatched, sinceReset, handled>>

vars == <<heap, users, order, events, clock, pending, ret, client>>

Entity(r) == Obj(heap[r])

Success(data) == [success |-> TRUE, data |-> data]

\* mutant of Failure: the failure also carries a data field
Failure_withData(error) == [success |-> FALSE, error |-> error, data |-> Undefined]

Failure(error) == [success |-> FALSE, error |-> error]

generateId(sfx) == Str(<<"u", "s", "e", "r", "_", sfx>>)

\* Map.prototype.set and Map.prototype.delete
Put(m, key, r) == [x \in DOMAIN m \cup {key} |-> IF x = key THEN r ELSE m[x]]
Remove(m, key) == [x \in DOMAIN m \ {key} |-> m[x]]

\* a Map iterates its keys in insertion order: set on a held key keeps its place
KeysAfterSet(keys, key) ==
  IF \E i \in 1..Len(keys) : keys[i] = key THEN keys ELSE Append(keys, key)
KeysAfterDelete(keys, key) == SelectSeq(keys, LAMBDA x : x # key)

ValidationFailure(field, message, code) ==
  Failure([type |-> "validation", field |-> field, message |-> [text |-> message],
           code |-> code])

NotFound(id) ==
  Failure([type |-> "business", code |-> "NOT_FOUND",
           message |-> [text |-> "User with ID ${id} not found", id |-> id]])

DataCorruption ==
  Failure([type |-> "business", code |-> "DATA_CORRUPTION",
           message |-> [text |-> "Stored user data is corrupted"]])

\* mutant of getUserById: the re-validation runs before the lookup result is tested
getUserById_missingIsCorruption(id) ==
  IF ~isNonEmptyString(id)
  THEN ValidationFailure("id", "User ID must be a non-empty string", "INVALID_ID")
  ELSE IF id.s \notin DOMAIN users \/ ~isUser(Entity(users[id.s])) THEN DataCorruption
  ELSE Success(users[id.s])

\* mutant of getUserById: the stored value is returned without re-validation
getUserById_skipsRecheck(id) ==
  IF ~isNonEmptyString(id)
  THEN ValidationFailure("id", "User ID must be a non-empty string", "INVALID_ID")
  ELSE IF id.s \notin DOMAIN users THEN NotFound(id)
  ELSE Success(users[id.s])

\* getUserById has no await: it runs to completion when it is called
getUserById(id) ==
  IF ~isNonEmptyString(id)
  THEN ValidationFailure("id", "User ID must be a non-empty string", "INVALID_ID")
  ELSE IF id.s \notin DOMAIN users THEN NotFound(id)
  ELSE IF ~isUser(Entity(users[id.s])) THEN DataCorruption
  ELSE Success(users[id.s])

\* mutants of CreateRejected: the check dropped, the check inverted
CreateRejected_never(validation) == FALSE
CreateRejected_inverted(validation) == validation.isValid

\* mutant of UpdateRejected: the check dropped
UpdateRejected_never(validation) == FALSE

\* `if (!validation.isValid)` of createUser
CreateRejected(validation) == ~validation.isValid

\* `if (!validation.isValid)` of updateUser
UpdateRejected(validation) == ~validation.isValid

\* the object literal that createUser validates
NewUserData(userData, gid, tc, tu) ==
  Merge([id |-> gid, createdAt |-> DateV(tc), updatedAt |-> DateV(tu)], OwnProps(userData))

\* the system fields createUser assigns after validation
StampUser(user, gid, tc, tu) ==
  Merge(user, [id |-> gid, createdAt |-> DateV(tc), updatedAt |-> DateV(tu)])

CreatedEvent(r, t) ==
  [type |-> "user_created", timestamp |-> DateV(t),
   data |-> [user |-> r, source |-> "admin",
             metadata |-> Obj([createdVia |-> Str(<<"a", "p", "i">>)])]]

\* mutant of UpdatedUserData: updatedAt is not refreshed
UpdatedUserData_notRefreshed(existingUser, updates, t) ==
  Merge(Merge(existingUser, OwnProps(updates)),
        [id |-> existingUser.id, createdAt |-> existingUser.createdAt,
         updatedAt |-> existingUser.updatedAt])

\* mutant of UpdatedUserData: id and createdAt are not restored after the spread
UpdatedUserData_notPreserved(existingUser, updates, t) ==
  Merge(Merge(existingUser, OwnProps(updates)), [updatedAt |-> DateV(t)])

\* the object literal that updateUser validates
UpdatedUserData(existingUser, updates, t) ==
  Merge(Merge(existingUser, OwnProps(updates)),
        [id |-> existingUser.id, createdAt |-> existingUser.createdAt,
         updatedAt |-> DateV(t)])

UpdatedEvent(id, updates, existing, t) ==
  [type |-> "user_updated", timestamp |-> DateV(t),
   data |-> [userId |-> id, changes |-> updates, previousValues |-> existing,
             updatedBy |-> "api"]]

DeletedEvent(id, user, t) ==
  [type |-> "user_deleted", timestamp |-> DateV(t),
   data |-> [userId |-> id, deletedBy |-> "api", reason |-> "API request",
             backup |-> user]]

Returned(op, id, input, got, res) ==
  [op |-> op, id |-> id, input |-> input, got |-> got, res |-> res,
   usersBefore |-> users, eventsBefore |-> events]

\* a call waiting at its await: the result of the lookup it made and, for the
\* record, what the Map held under the id when the call was made
Suspended(op, id, input) ==
  [op |-> op, id |-> id, input |-> input, got |-> getUserById(id),
   atCall |-> IF isString(id) /\ id.s \in DOMAIN users THEN <<users[id.s]>> ELSE <<>>]

IdArgs == {Str(key) : key \in DOMAIN users} \cup OtherIds

(***************************************************************************)
(* Listing the store                                                       *)
(***************************************************************************)
\* v || dflt
Falsy(v) ==
  \/ v.k \in {"undefined", "null"}
  \/ v.k = "boolean" /\ ~v.b
  \/ v.k = "number" /\ (v.cls = "nan" \/ (v.cls = "finite" /\ v.n = 0))
  \/ v.k = "string" /\ v.s = <<>>

OrElse(v, dflt) == IF Falsy(v) THEN dflt ELSE v

\* the characters of the model in code unit order
Ascii ==
  <<"\t", "\n", "U+000B", "\f", "\r",
    " ", "!", "U+0022", "#", "$", "%", "&", "'", "(", ")", "*", "+", ",", "-", ".", "/",
    "0", "1", "2", "3", "4", "5", "6", "7", "8", "9", ":", ";", "<", "=", ">", "?", "@",
    "A", "B", "C", "D", "E", "F", "G", "H", "I", "J", "K", "L", "M", "N", "O", "P", "Q",
    "R", "S", "T", "U", "V", "W", "X", "Y", "Z", "[", "U+005C", "]", "^", "_", "U+0060",
    "a", "b", "c", "d", "e", "f", "g", "h", "i", "j", "k", "l", "m", "n", "o", "p", "q",
    "r", "s", "t", "u", "v", "w", "x", "y", "z", "{", "|", "}", "~",
    "U+00A0", "U+1680", "U+2000", "U+2001", "U+2002", "U+2003", "U+2004", "U+2005",
    "U+2006", "U+2007", "U+2008", "U+2009", "U+200A", "U+2028", "U+2029", "U+202F",
    "U+205F", "U+3000", "U+FEFF">>

CharCode(c) == CHOOSE i \in 1..Len(Ascii) : Ascii[i] = c

\* s < t on strings: by code units, a proper prefix first
StrLess(s, t) ==
  \E i \in 1..Len(t) :
    /\ \A j \in 1..(i - 1) : j <= Len(s) /\ s[j] = t[j]
    /\ (i > Len(s) \/ CharCode(s[i]) < CharCode(t[i]))

\* a built-in function object, as the members of Object.prototype are
Builtin(name) == [k |-> "function", name |-> name]

\* Object.prototype: it has no prototype and owns the members that every
\* object inherits
ObjectPrototype ==
  NullProto([m \in {"constructor", "__defineGetter__", "__defineSetter__",
                    "hasOwnProperty", "__lookupGetter__", "__lookupSetter__",
                    "isPrototypeOf", "propertyIsEnumerable", "toString", "valueOf",
                    "toLocaleString"} |->
               IF m = "constructor" THEN Builtin("Object") ELSE Builtin(m)])

\* whether a result is a thrown error
Thrown(r) == "threw" \in DOMAIN r

\* the TypeError of a conversion that finds no method giving a primitive
ConversionError ==
  [name |-> "TypeError", message |-> [text |-> "Cannot convert object to primitive value"]]

\* the RangeError of a call that never returns
StackError ==
  [name |-> "RangeError", message |-> [text |-> "Maximum call stack size exceeded"]]

\* the digits without the zeros in front
StripLeading(ds) ==
  IF \A i \in 1..Len(ds) : ds[i] = 0 THEN <<>>
  ELSE SubSeq(ds, CHOOSE i \in 1..Len(ds) : ds[i] # 0 /\ \A j \in 1..(i - 1) : ds[j] = 0,
              Len(ds))

\* the digits without the zeros at the end
StripTrailing(ds) ==
  IF \A i \in 1..Len(ds) : ds[i] = 0 THEN <<>>
  ELSE SubSeq(ds, 1,
              CHOOSE i \in 1..Len(ds) : ds[i] # 0 /\ \A j \in (i + 1)..Len(ds) : ds[j] = 0)

\* the number 0.d1 d2 ... dk times 10^point, written with d1 and dk not 0;
\* zero has no digits (the sign of zero plays no part in a comparison)
Decimal(neg, ds, point) ==
  IF StripLeading(ds) = <<>>
  THEN [cls |-> "finite", neg |-> FALSE, digits |-> <<>>, point |-> 0]
  ELSE [cls |-> "finite", neg |-> neg, digits |-> StripTrailing(StripLeading(ds)),
        point |-> point - (Len(ds) - Len(StripLeading(ds)))]

NotANumber == [cls |-> "nan"]
Infinite(neg) == [cls |-> "inf", neg |-> neg]

RECURSIVE DecimalDigits(_)
\* the decimal digits of an integer n >= 0
DecimalDigits(n) ==
  IF n < 10 THEN <<n>> ELSE DecimalDigits(n \div 10) \o <<n % 10>>

\* the absolute value of an integer
Magnitude(n) == IF n < 0 THEN -n ELSE n

\* ds < es on the digits after the point: the first difference decides, a
\* proper prefix is smaller
DigitsLess(ds, es) ==
  \E i \in 1..Len(es) :
    /\ \A j \in 1..(i - 1) : j <= Len(ds) /\ ds[j] = es[j]
    /\ (i > Len(ds) \/ ds[i] < es[i])

\* |x| < |y| on finite numbers
MagnitudeLess(x, y) ==
  IF y.digits = <<>> THEN FALSE
  ELSE IF x.digits = <<>> THEN TRUE
  ELSE IF x.point # y.point THEN x.point < y.point
  ELSE DigitsLess(x.digits, y.digits)

\* twice the integer that the digits spell, plus a bit
TwicePlus(ds, bit) ==
  IF ds = <<>> THEN <<bit>>
  ELSE (IF ds[1] >= 5 THEN <<1>> ELSE <<>>)
         \o [i \in 1..Len(ds) |->
               (2 * ds[i] + (IF i = Len(ds) THEN bit
                             ELSE IF ds[i + 1] >= 5 THEN 1 ELSE 0)) % 10]

\* half the integer that the digits spell, rounded down
Half(ds) ==
  <<>> \o [i \in 1..Len(ds) |->
             (ds[i] + (IF i > 1 /\ ds[i - 1] % 2 = 1 THEN 10 ELSE 0)) \div 2]

\* the integer plus one
Increment(ds) ==
  IF \A i \in 1..Len(ds) : ds[i] = 9 THEN <<1>> \o [i \in 1..Len(ds) |-> 0]
  ELSE <<>> \o [i \in 1..Len(ds) |->
                  IF \A j \in (i + 1)..Len(ds) : ds[j] = 9
                  THEN (IF \A j \in i..Len(ds) : ds[j] = 9 THEN 0 ELSE ds[i] + 1)
                  ELSE ds[i]]

\* one step of the arithmetic on digits; x holds digits, bits what was read:
\* "int" halves an integer and reads its last bit, "frac" doubles a fraction
\* and reads the bit that passes the point, "bits" doubles an integer and
\* adds the next bit, "double" doubles an integer,
\* "halve" halves a number with sc digits after the point exactly
Step(kind, st) ==
  CASE kind = "int" ->
         [x |-> IF Len(st.x) > 1 /\ st.x[1] <= 1 THEN Tail(Half(st.x)) ELSE Half(st.x),
          bits |-> <<st.x[Len(st.x)] % 2>> \o st.bits]
    [] kind = "frac" ->
         [x |-> <<>> \o [i \in 1..Len(st.x) |->
                   (2 * st.x[i] + (IF i < Len(st.x) /\ st.x[i + 1] >= 5 THEN 1 ELSE 0)) % 10],
          bits |-> st.bits \o <<IF st.x[1] >= 5 THEN 1 ELSE 0>>]
    [] kind = "bits" -> [x |-> TwicePlus(st.x, Head(st.bits)), bits |-> Tail(st.bits)]
    [] kind = "double" -> [x |-> TwicePlus(st.x, 0), sc |-> 0]
    [] kind = "halve" -> [x |-> Half(st.x \o <<0>>), sc |-> st.sc + 1]

RECURSIVE Iterate(_, _, _)
\* n steps, the first half of them before the second (st is looked at
\* before the steps are made)
Iterate(kind, st, n) ==
  IF Len(st.x) < 0 \/ n = 0 THEN st
  ELSE IF n = 1 THEN Step(kind, st)
  ELSE Iterate(kind, Iterate(kind, st, n \div 2), n - (n \div 2))

\* the integer digits times 2^k, as a number
Scaled(neg, ds, k) ==
  IF k >= 0 THEN Decimal(neg, Iterate("double", [x |-> ds, sc |-> 0], k).x,
                         Len(Iterate("double", [x |-> ds, sc |-> 0], k).x))
  ELSE Decimal(neg, Iterate("halve", [x |-> ds, sc |-> 0], -k).x,
               Len(ds))

\* the number of bits of an integer 0 <= n < 2^31
BitLength(n) ==
  IF n >= 2^30 THEN 31
  ELSE CHOOSE b \in 0..30 : n < 2^b /\ (b = 0 \/ 2^(b - 1) <= n)

\* a number of the model in decimal: n/d with d a power of two
DecimalOf(v) ==
  CASE v.cls = "nan" -> NotANumber
    [] v.cls = "inf" -> Infinite(FALSE)
    [] OTHER -> Scaled(v.n < 0, DecimalDigits(Magnitude(v.n)), 1 - BitLength(v.d))

\* the decimal digits of the integer that the bits spell
BitsDigits(bits) == Iterate("bits", [x |-> <<>>, bits |-> bits], Len(bits)).x

\* the first position of s that holds a character of set, 0 when none does
IndexOf(s, set) ==
  IF \E i \in 1..Len(s) : s[i] \in set
  THEN CHOOSE i \in 1..Len(s) : s[i] \in set /\ \A j \in 1..(i - 1) : s[j] \notin set
  ELSE 0

\* the double nearest to a number given by its bits: all holds the bits, the
\* first before of them in front of the binary point, first is the place of
\* the leading one, m the number of bits a double keeps from there (53, fewer
\* for a denormal), rest tells that bits not in all are not all zero; a tie
\* goes to the even mantissa, and 2^1024 is Infinity
Rounded(neg, all, before, first, m, rest) ==
  IF /\ before - first >= 1023
     /\ \/ before - first >= 1024
        \/ /\ \A i \in first..(first + 52) : all[i] = 1
           /\ all[first + 53] = 1
  THEN Infinite(neg)
  ELSE Scaled(neg,
              IF /\ all[first + m] = 1
                 /\ \/ rest
                    \/ \E i \in (first + m + 1)..Len(all) : all[i] = 1
                    \/ m > 0 /\ all[first + m - 1] = 1
              THEN Increment(BitsDigits(SubSeq(all, first, first + m - 1)))
              ELSE BitsDigits(SubSeq(all, first, first + m - 1)),
              before - first - m + 1)

\* the bits of the fraction are cut where a double ends
WithBits(neg, ib, fr) ==
  IF IndexOf(ib \o fr.bits, {1}) = 0 THEN Decimal(FALSE, <<>>, 0)
  ELSE Rounded(neg, ib \o fr.bits, Len(ib), IndexOf(ib \o fr.bits, {1}),
               IF Len(ib) - IndexOf(ib \o fr.bits, {1}) >= -1022 THEN 53
               ELSE Len(ib) - IndexOf(ib \o fr.bits, {1}) + 1075,
               \E i \in 1..Len(fr.x) : fr.x[i] # 0)

\* the number of bits of the fraction to read: 54 from the leading one, which
\* comes within four bits for each decimal place, and none past 2^-1075
FractionBits(ib, fp) ==
  IF ib # <<>> THEN (IF Len(ib) >= 54 THEN 0 ELSE 54 - Len(ib))
  ELSE IF 4 * (Len(fp) - Len(StripLeading(fp)) + 1) + 54 > 1075 THEN 1075
  ELSE 4 * (Len(fp) - Len(StripLeading(fp)) + 1) + 54

\* the integer digits ip and the fraction digits fp in binary
InBinary(neg, ip, fp) ==
  WithBits(neg,
           StripLeading(Iterate("int", [x |-> ip, bits |-> <<>>], 4 * Len(ip)).bits),
           Iterate("frac", [x |-> fp \o <<0>>, bits |-> <<>>],
                   FractionBits(
                     StripLeading(Iterate("int", [x |-> ip, bits |-> <<>>], 4 * Len(ip)).bits),
                     fp)))

\* the Number value of a decimal: the nearest double, read from the binary
\* expansion of the decimal (past 10^310 the double is Infinity and below
\* 10^-330 it is zero, whatever the digits)
AsDouble(dec) ==
  IF dec.digits = <<>> THEN dec
  ELSE IF dec.point > 310 THEN Infinite(dec.neg)
  ELSE IF dec.point < -330 THEN Decimal(FALSE, <<>>, 0)
  ELSE IF dec.point <= 0
  THEN InBinary(dec.neg, <<>>, [i \in 1..(-dec.point) |-> 0] \o dec.digits)
  ELSE IF dec.point >= Len(dec.digits)
  THEN InBinary(dec.neg, dec.digits \o [i \in 1..(dec.point - Len(dec.digits)) |-> 0], <<>>)
  ELSE InBinary(dec.neg, SubSeq(dec.digits, 1, dec.point),
                SubSeq(dec.digits, dec.point + 1, Len(dec.digits)))

DigitChars == <<"0", "1", "2", "3", "4", "5", "6", "7", "8", "9">>

\* the characters of a sequence of digits
Spell(ds) == [i \in 1..Len(ds) |-> DigitChars[ds[i] + 1]]

Zeros(n) == [i \in 1..n |-> "0"]

\* Number::toString of the positive number 0.ds times 10^point: plain
\* notation up to 21 integer digits and down to 6 leading zeros, exponent
\* notation outside
SpellPositive(ds, point) ==
  IF Len(ds) <= point /\ point <= 21 THEN Spell(ds) \o Zeros(point - Len(ds))
  ELSE IF 0 < point /\ point <= 21
  THEN Spell(SubSeq(ds, 1, point)) \o <<".">> \o Spell(SubSeq(ds, point + 1, Len(ds)))
  ELSE IF -6 < point /\ point <= 0
  THEN <<"0", ".">> \o Zeros(-point) \o Spell(ds)
  ELSE Spell(<<ds[1]>>)
         \o (IF Len(ds) = 1 THEN <<>> ELSE <<".">> \o Spell(Tail(ds)))
         \o <<"e", IF point - 1 < 0 THEN "-" ELSE "+">>
         \o Spell(DecimalDigits(Magnitude(point - 1)))

\* half the distance from the double n/d > 0 to the next double above it,
\* which is 2^-53 times the power of two at or below n/d
HalfGap(n, d) == Scaled(FALSE, <<1>>, BitLength(n) - BitLength(d) - 53)

\* half the distance to the next double below: half as much when n/d is
\* itself a power of two
HalfGapBelow(n, d) ==
  Scaled(FALSE, <<1>>,
         BitLength(n) - BitLength(d) - (IF 2^(BitLength(n) - 1) = n THEN 54 ELSE 53))

\* what is left of 10^Len(tail) when tail is taken away (tail ends in a
\* digit that is not 0)
Complement(tail) ==
  <<>> \o [i \in 1..Len(tail) |-> IF i = Len(tail) THEN 10 - tail[i] ELSE 9 - tail[i]]

\* the two numbers of k digits around 0.ds times 10^point
Below(ds, point, k) == Decimal(FALSE, SubSeq(ds, 1, k), point)
Above(ds, point, k) ==
  Decimal(FALSE, Increment(SubSeq(ds, 1, k)),
          point + Len(Increment(SubSeq(ds, 1, k))) - k)

\* the nearer of the two when both read back as the double, the even one on
\* a tie; down and up are their distances from the double
Nearer(ds, point, k, down, up, downReads, upReads) ==
  IF downReads /\ upReads
  THEN (IF MagnitudeLess(down, up) THEN Below(ds, point, k)
        ELSE IF MagnitudeLess(up, down) THEN Above(ds, point, k)
        ELSE IF ds[k] % 2 = 0 THEN Below(ds, point, k)
        ELSE Above(ds, point, k))
  ELSE IF downReads THEN Below(ds, point, k)
  ELSE Above(ds, point, k)

RECURSIVE Shortest(_, _, _, _, _)
\* the number of fewest digits, k at least, that reads back as the double
\* 0.ds times 10^point: a number reads back when it is no further than half
\* the gap to the next double (the mantissa of a number of the model is
\* even, so the ends of the interval read back too)
Shortest(ds, point, k, below, above) ==
  IF k >= Len(ds) THEN Decimal(FALSE, ds, point)
  ELSE IF \/ ~MagnitudeLess(below, Decimal(FALSE, SubSeq(ds, k + 1, Len(ds)), point - k))
          \/ ~MagnitudeLess(above, Decimal(FALSE, Complement(SubSeq(ds, k + 1, Len(ds))),
                                           point - k))
  THEN Nearer(ds, point, k,
              Decimal(FALSE, SubSeq(ds, k + 1, Len(ds)), point - k),
              Decimal(FALSE, Complement(SubSeq(ds, k + 1, Len(ds))), point - k),
              ~MagnitudeLess(below, Decimal(FALSE, SubSeq(ds, k + 1, Len(ds)), point - k)),
              ~MagnitudeLess(above, Decimal(FALSE, Complement(SubSeq(ds, k + 1, Len(ds))),
                                            point - k)))
  ELSE Shortest(ds, point, k + 1, below, above)

\* Number.prototype.toString: the shortest digits that read back as the
\* same double
NumberToString(v) ==
  CASE v.cls = "nan" -> Chars("NaN")
    [] v.cls = "inf" -> Chars("Infinity")
    [] v.n = 0 -> <<"0">>
    [] OTHER ->
         (IF v.n < 0 THEN <<"-">> ELSE <<>>)
           \o SpellPositive(
                Shortest(DecimalOf(v).digits, DecimalOf(v).point, 1,
                         HalfGapBelow(Magnitude(v.n), v.d),
                         HalfGap(Magnitude(v.n), v.d)).digits,
                Shortest(DecimalOf(v).digits, DecimalOf(v).point, 1,
                         HalfGapBelow(Magnitude(v.n), v.d),
                         HalfGap(Magnitude(v.n), v.d)).point)

\* whether every character of s is in set
AllIn(s, set) == \A i \in 1..Len(s) : s[i] \in set

HexChars == Chars("0123456789abcdef")
HexUpper == Chars("0123456789ABCDEF")

\* the digits a literal of the given radix may hold
RadixChars(radix) ==
  {HexChars[i] : i \in 1..radix} \cup {HexUpper[i] : i \in 1..radix}

HexValue(c) == (CHOOSE i \in 1..16 : HexChars[i] = c \/ HexUpper[i] = c) - 1

RECURSIVE TimesPlus(_, _, _)
\* the decimal digits of ds * m + c
TimesPlus(ds, m, c) ==
  IF ds = <<>> THEN (IF c = 0 THEN <<>> ELSE DecimalDigits(c))
  ELSE TimesPlus(SubSeq(ds, 1, Len(ds) - 1), m, (ds[Len(ds)] * m + c) \div 10)
         \o <<(ds[Len(ds)] * m + c) % 10>>

RECURSIVE RadixDigits(_, _)
\* the decimal digits of the integer that s spells in the given radix
RadixDigits(s, radix) ==
  IF s = <<>> THEN <<>>
  ELSE TimesPlus(RadixDigits(SubSeq(s, 1, Len(s) - 1), radix), radix, HexValue(s[Len(s)]))

RECURSIVE DigitsValue(_)
DigitsValue(s) ==
  IF s = <<>> THEN 0
  ELSE 10 * DigitsValue(SubSeq(s, 1, Len(s) - 1)) + HexValue(s[Len(s)])

\* the value of the digits of an exponent; past four digits the number is
\* out of the range of doubles whatever the digits are
ExponentValue(s) ==
  IF Len(StripLeading([i \in 1..Len(s) |-> HexValue(s[i])])) > 4 THEN 9999
  ELSE DigitsValue(s)

\* StrUnsignedDecimalLiteral with its parts cut out: integer digits, fraction
\* digits, and the exponent with its sign (hasExp tells that an e was there)
ReadParts(neg, ip, fp, hasExp, expNeg, expDigits) ==
  IF /\ AllIn(ip, Digits) /\ AllIn(fp, Digits) /\ Len(ip) + Len(fp) >= 1
     /\ (hasExp => expDigits # <<>> /\ AllIn(expDigits, Digits))
  THEN AsDouble(Decimal(neg, [i \in 1..(Len(ip) + Len(fp)) |-> HexValue((ip \o fp)[i])],
                       Len(ip) + (IF expNeg THEN -ExponentValue(expDigits)
                                  ELSE ExponentValue(expDigits))))
  ELSE NotANumber

\* the mantissa is cut at its point, the exponent after its sign
ReadMantissa(neg, mant, hasExp, expo) ==
  ReadParts(neg,
            IF IndexOf(mant, {"."}) = 0 THEN mant
            ELSE SubSeq(mant, 1, IndexOf(mant, {"."}) - 1),
            IF IndexOf(mant, {"."}) = 0 THEN <<>>
            ELSE SubSeq(mant, IndexOf(mant, {"."}) + 1, Len(mant)),
            hasExp,
            expo # <<>> /\ expo[1] = "-",
            IF expo # <<>> /\ expo[1] \in {"+", "-"} THEN Tail(expo) ELSE expo)

\* StrUnsignedDecimalLiteral: Infinity, or a mantissa and an optional exponent
ReadUnsigned(neg, u) ==
  IF u = Chars("Infinity") THEN Infinite(neg)
  ELSE IF IndexOf(u, {"e", "E"}) = 0 THEN ReadMantissa(neg, u, FALSE, <<>>)
  ELSE ReadMantissa(neg, SubSeq(u, 1, IndexOf(u, {"e", "E"}) - 1), TRUE,
                    SubSeq(u, IndexOf(u, {"e", "E"}) + 1, Len(u)))

\* 0x, 0o and 0b literals: no sign, at least one digit
RadixOf(t) ==
  IF Len(t) < 3 \/ t[1] # "0" THEN 0
  ELSE CASE t[2] \in {"x", "X"} -> 16
         [] t[2] \in {"o", "O"} -> 8
         [] t[2] \in {"b", "B"} -> 2
         [] OTHER -> 0

\* StringToNumber of a trimmed string: the double nearest to what it spells
ReadTrimmed(t) ==
  IF t = <<>> THEN Decimal(FALSE, <<>>, 0)
  ELSE IF RadixOf(t) # 0
  THEN (IF AllIn(SubSeq(t, 3, Len(t)), RadixChars(RadixOf(t)))
        THEN AsDouble(Decimal(FALSE, RadixDigits(SubSeq(t, 3, Len(t)), RadixOf(t)),
                             Len(RadixDigits(SubSeq(t, 3, Len(t)), RadixOf(t)))))
        ELSE NotANumber)
  ELSE IF t[1] \in {"+", "-"} THEN ReadUnsigned(t[1] = "-", Tail(t))
  ELSE ReadUnsigned(FALSE, t)

\* ToNumber of a primitive, in decimal
ToNumber(v) ==
  CASE v.k = "number" -> DecimalOf(v)
    [] v.k = "boolean" -> IF v.b THEN Decimal(FALSE, <<1>>, 1) ELSE Decimal(FALSE, <<>>, 0)
    [] v.k = "null" -> Decimal(FALSE, <<>>, 0)
    [] v.k = "string" -> ReadTrimmed(trim(v.s))
    [] OTHER -> NotANumber

\* nx < ny on numbers: a NaN on either side gives false
NumLess(nx, ny) ==
  IF nx.cls = "nan" \/ ny.cls = "nan" THEN FALSE
  ELSE IF nx.cls = "inf" THEN nx.neg /\ ~(ny.cls = "inf" /\ ny.neg)
  ELSE IF ny.cls = "inf" THEN ~ny.neg
  ELSE IF nx.neg # ny.neg THEN nx.neg
  ELSE IF nx.neg THEN MagnitudeLess(ny, nx)
  ELSE MagnitudeLess(nx, ny)

\* px < py on primitives: two strings compare by code units, anything else
\* by number
LessPrimitive(px, py) ==
  IF px.k = "string" /\ py.k = "string" THEN StrLess(px.s, py.s)
  ELSE NumLess(ToNumber(px), ToNumber(py))

\* two digits for a number below 100
TwoDigits(n) == <<DigitChars[(n \div 10) + 1], DigitChars[(n % 10) + 1]>>

\* Date.prototype.toString where local time is UTC; the time values of the
\* model lie within 25 days of the epoch, in December 1969 or January 1970
DateString(t) ==
  Chars(<<"Sun", "Mon", "Tue", "Wed", "Thu", "Fri", "Sat">>[((4 + (t \div 86400000)) % 7) + 1])
    \o (IF t >= 0 THEN Chars(" Jan ") \o TwoDigits((t \div 86400000) + 1) \o Chars(" 1970 ")
        ELSE Chars(" Dec ") \o TwoDigits(32 + (t \div 86400000)) \o Chars(" 1969 "))
    \o TwoDigits((t % 86400000) \div 3600000) \o <<":">>
    \o TwoDigits(((t % 86400000) \div 60000) % 60) \o <<":">>
    \o TwoDigits(((t % 86400000) \div 1000) % 60)
    \o Chars(" GMT+0000 (Coordinated Universal Time)")

\* ToString of a primitive
PrimitiveString(p) ==
  CASE p.k = "string" -> p.s
    [] p.k = "number" -> NumberToString(p)
    [] p.k = "boolean" -> IF p.b THEN Chars("true") ELSE Chars("false")
    [] p.k = "null" -> Chars("null")
    [] p.k = "undefined" -> Chars("undefined")

RECURSIVE Glue(_)
\* characters as text
Glue(s) == IF s = <<>> THEN "" ELSE s[1] \o Glue(Tail(s))

\* the TypeError of a call to a value that is no function, as V8 words it
\* when the call is made by a built-in
NotCallable(v) ==
  [name |-> "TypeError",
   message |->
     [text |->
        typeof(v)
          \o (CASE v.k = "string" -> " U+0022" \o Glue(v.s) \o "U+0022"
                [] v.k \in {"number", "boolean", "null"} -> " " \o Glue(PrimitiveString(v))
                [] OTHER -> "")
          \o " is not a function"]]

\* o[name] for an object: the own property, else the member inherited from
\* Object.prototype, undefined when there is no prototype
GetMember(o, name) ==
  IF name \in DOMAIN o.f THEN o.f[name]
  ELSE IF o.proto # "null" THEN ObjectPrototype.f[name]
  ELSE Undefined

RECURSIVE CallBuiltin(_, _)
\* what a member of Object.prototype gives when a conversion calls it on the
\* object o with no argument; valueOf and the constructor give an object
CallBuiltin(name, o) ==
  CASE name = "toString" -> Str(Chars("[object Object]"))
    [] name = "valueOf" -> o
    [] name = "Object" -> Obj(NoProps)
    [] name \in {"hasOwnProperty", "propertyIsEnumerable"} -> Bool("undefined" \in DOMAIN o.f)
    [] name = "isPrototypeOf" -> Bool(FALSE)
    [] name \in {"__lookupGetter__", "__lookupSetter__"} -> Undefined
    [] name \in {"__defineGetter__", "__defineSetter__"} ->
         Throws([name |-> "TypeError",
                 message |-> [text |-> "Object.prototype." \o name \o ": Expecting function"]])
    [] name = "toLocaleString" ->
         \* it calls o.toString(), which may be itself
         IF GetMember(o, "toString").k # "function"
         THEN Throws(NotCallable(GetMember(o, "toString")))
         ELSE IF GetMember(o, "toString").name = "toLocaleString" THEN Throws(StackError)
         ELSE CallBuiltin(GetMember(o, "toString").name, o)

\* whether a conversion method gave a result that ends the conversion: a
\* thrown error or a primitive
Ends(r) == Thrown(r) \/ r.k \notin {"object", "array", "date", "function"}

\* the method of the given name called on o, o itself when it is no function
TryMethod(o, name) ==
  IF GetMember(o, name).k = "function" THEN CallBuiltin(GetMember(o, name).name, o)
  ELSE o

\* the first of the two results that ends the conversion, a TypeError when
\* neither is a primitive
FirstPrimitive(r1, r2) ==
  IF Ends(r1) THEN r1
  ELSE IF Ends(r2) THEN r2
  ELSE Throws(ConversionError)

\* OrdinaryToPrimitive: the two methods in turn
OrdinaryToPrimitive(o, first, second) ==
  FirstPrimitive(TryMethod(o, first), TryMethod(o, second))

RECURSIVE ToPrimitiveHint(_, _)
RECURSIVE Joined(_, _)
RECURSIVE ToStr(_)

\* ToPrimitive: an object calls valueOf then toString, the other way round
\* when a string is asked for; a Date gives its time value or its string; an
\* array and a function have a valueOf that gives themselves, and give their
\* string
ToPrimitiveHint(v, hint) ==
  CASE v.k = "object" ->
         OrdinaryToPrimitive(v, IF hint = "string" THEN "toString" ELSE "valueOf",
                             IF hint = "string" THEN "valueOf" ELSE "toString")
    [] v.k = "date" ->
         IF hint = "string"
         THEN Str(IF v.valid THEN DateString(v.t) ELSE Chars("Invalid Date"))
         ELSE IF v.valid THEN Num(v.t) ELSE NaN
    [] v.k = "array" -> Joined(v.e, Len(v.e))
    [] v.k = "function" ->
         Str(Chars("function ") \o Chars(v.name) \o Chars("() { [native code] }"))
    [] OTHER -> v

\* one more element joined to what the elements before gave
JoinedWith(front, element, n) ==
  IF Thrown(front) THEN front
  ELSE IF Thrown(element) THEN element
  ELSE Str(front.s \o (IF n > 1 THEN <<",">> ELSE <<>>) \o element.s)

\* Array.prototype.join of the first n elements: their strings with commas
\* between, null and undefined elements giving the empty string
Joined(e, n) ==
  IF n = 0 THEN Str(<<>>)
  ELSE JoinedWith(Joined(e, n - 1),
                  IF e[n].k \in {"null", "undefined"} THEN Str(<<>>) ELSE ToStr(e[n]),
                  n)

\* the string of what the conversion gave
StringOfResult(p) == IF Thrown(p) THEN p ELSE Str(PrimitiveString(p))

\* ToString as a string value, or the error thrown
ToStr(v) == StringOfResult(ToPrimitiveHint(v, "string"))

\* what a result holds under the given name, or the error thrown
Yield(r, name) == IF Thrown(r) THEN r ELSE r[name]

\* ToString of a value: its characters, or the error thrown
StringOf(v) == Yield(ToStr(v), "s")

\* ToPrimitive with hint number, as < asks for it
ToPrimitive(v) == ToPrimitiveHint(v, "number")

\* px < py when neither conversion threw, else the error of the first
LessConverted(px, py) ==
  IF Thrown(px) THEN px
  ELSE IF Thrown(py) THEN py
  ELSE LessPrimitive(px, py)

\* a < b: both operands are made primitive first, the left one first
Less(a, b) == LessConverted(ToPrimitive(a), ToPrimitive(b))

\* o[key] on an object with own properties f that inherits from
\* Object.prototype
Member(f, key) ==
  IF \E p \in DOMAIN f : Chars(p) = key
  THEN f[CHOOSE p \in DOMAIN f : Chars(p) = key]
  ELSE IF \E m \in DOMAIN ObjectPrototype.f : Chars(m) = key
  THEN ObjectPrototype.f[CHOOSE m \in DOMAIN ObjectPrototype.f : Chars(m) = key]
  ELSE IF key = Chars("__proto__") THEN ObjectPrototype
  ELSE Undefined

\* o[key] for the property key that sortBy gave, or the error it threw
AtKey(f, key) == IF Thrown(key) THEN key ELSE Member(f, key.s)

\* a[sortBy]: sortBy is made a property key, which is its string; the error
\* thrown when it has none
ValueAt(f, sortBy) == AtKey(f, ToStr(sortBy))

\* comparison is set to -1 when aValue < bValue and then to 1 when
\* aValue > bValue, and negated for 'desc'
Signed(less, greater, sortOrder) ==
  IF sortOrder = Str(Chars("desc"))
  THEN [sign |-> IF greater THEN -1 ELSE IF less THEN 1 ELSE 0]
  ELSE [sign |-> IF greater THEN 1 ELSE IF less THEN -1 ELSE 0]

\* the two tests on the primitives pa and pb of the two values, or the error
\* of the first conversion that threw
Compared(pa, pb, sortOrder) ==
  IF Thrown(pa) THEN pa
  ELSE IF Thrown(pb) THEN pb
  ELSE Signed(LessPrimitive(pa, pb), LessPrimitive(pb, pa), sortOrder)

\* the comparator on the property maps a and b, key being the property key
\* that sortBy gave or the error it threw
Ordered(a, b, key, sortOrder) ==
  IF Thrown(key) THEN key
  ELSE Compared(ToPrimitive(Member(a, key.s)), ToPrimitive(Member(b, key.s)), sortOrder)

\* the comparator handed to allUsers.sort: what it returns, or the error it
\* throws when sortBy or one of the two values does not convert
Compare(a, b, sortBy, sortOrder) == Yield(Ordered(a, b, ToStr(sortBy), sortOrder), "sign")

\* the comparator on two stored entities, its result in a record
Order(x, y, sortBy, sortOrder) == Ordered(heap[x], heap[y], ToStr(sortBy), sortOrder)

RECURSIVE RunLength(_, _, _, _, _)
RECURSIVE RunAfter(_, _, _, _, _, _)
\* the run that starts the array, k elements of it known: the comparison of
\* the second element with the first tells whether it descends; a descending
\* run goes on while the next element compares before the last, an ascending
\* one while it does not; the error of a comparison that throws
RunLength(a, k, descending, sortBy, sortOrder) ==
  IF k = Len(a) THEN [length |-> k, descending |-> descending]
  ELSE RunAfter(a, k, descending, Order(a[k + 1], a[k], sortBy, sortOrder), sortBy, sortOrder)

\* the run after the comparison of a[k + 1] with a[k] gave o
RunAfter(a, k, descending, o, sortBy, sortOrder) ==
  IF Thrown(o) THEN o
  ELSE IF k = 1 THEN RunLength(a, 2, o.sign < 0, sortBy, sortOrder)
  ELSE IF descending = (o.sign < 0) THEN RunLength(a, k + 1, descending, sortBy, sortOrder)
  ELSE [length |-> k, descending |-> descending]

\* the array with its first n elements reversed
ReverseRun(a, n) == [i \in 1..Len(a) |-> IF i <= n THEN a[n + 1 - i] ELSE a[i]]

RECURSIVE InsertionPoint(_, _, _, _, _, _)
RECURSIVE Narrowed(_, _, _, _, _, _, _, _)
\* binary search for the place of pivot among a[left + 1 .. right]: the
\* number of elements that stay in front of it
InsertionPoint(a, pivot, left, right, sortBy, sortOrder) ==
  IF left >= right THEN [at |-> left]
  ELSE Narrowed(a, pivot, left, right, left + ((right - left) \div 2),
                Order(pivot, a[left + ((right - left) \div 2) + 1], sortBy, sortOrder),
                sortBy, sortOrder)

\* the search after the comparison of pivot with a[mid + 1] gave o
Narrowed(a, pivot, left, right, mid, o, sortBy, sortOrder) ==
  IF Thrown(o) THEN o
  ELSE IF o.sign < 0 THEN InsertionPoint(a, pivot, left, mid, sortBy, sortOrder)
  ELSE InsertionPoint(a, pivot, mid + 1, right, sortBy, sortOrder)

\* the array with the element at start + 1 moved to position at + 1
MoveTo(a, start, at) ==
  SubSeq(a, 1, at) \o <<a[start + 1]>> \o SubSeq(a, at + 1, start)
    \o SubSeq(a, start + 2, Len(a))

RECURSIVE BinaryInsertionSort(_, _, _, _)
RECURSIVE Inserted(_, _, _, _, _)
\* the first start elements are in order; the others are inserted in turn
BinaryInsertionSort(a, start, sortBy, sortOrder) ==
  IF start >= Len(a) THEN [a |-> a]
  ELSE Inserted(a, start, InsertionPoint(a, a[start + 1], 0, start, sortBy, sortOrder),
                sortBy, sortOrder)

\* the sort after the place of a[start + 1] was found, or the error thrown
Inserted(a, start, point, sortBy, sortOrder) ==
  IF Thrown(point) THEN point
  ELSE BinaryInsertionSort(MoveTo(a, start, point.at), start + 1, sortBy, sortOrder)

\* the run at the start is reversed when it descends, and the rest inserted
AfterRun(refs, run, sortBy, sortOrder) ==
  IF Thrown(run) THEN run
  ELSE BinaryInsertionSort(IF run.descending THEN ReverseRun(refs, run.length) ELSE refs,
                           run.length, sortBy, sortOrder)

\* Array.prototype.sort as V8 runs it on an array shorter than 64 elements:
\* one run is made at the start, the rest is inserted by binary search; the
\* sorted array in a record, or the error of the first comparison that throws
sort(refs, sortBy, sortOrder) ==
  IF Len(refs) < 2 THEN [a |-> refs]
  ELSE AfterRun(refs, RunLength(refs, 1, FALSE, sortBy, sortOrder), sortBy, sortOrder)

\* the sorted array, or the error thrown
Sorted(refs, sortBy, sortOrder) == Yield(sort(refs, sortBy, sortOrder), "a")


\* ToIntegerOrInfinity of n/d for d > 0
Trunc(n, d) == IF n >= 0 THEN n \div d ELSE -((-n) \div d)

\* Array.prototype.slice(start, end) with start = sn/sd and end = en/ed
Slice(q, sn, sd, en, ed) ==
  LET Clamp(k) == IF k < 0 THEN (IF Len(q) + k < 0 THEN 0 ELSE Len(q) + k)
                  ELSE IF k > Len(q) THEN Len(q) ELSE k
      from == Clamp(Trunc(sn, sd))
      to == Clamp(Trunc(en, ed))
  IN SubSeq(q, from + 1, to)

\* allUsers.slice((page - 1) * limit, (page - 1) * limit + limit)
PageOf(allUsers, page, limit) ==
  Slice(allUsers, (page.n - page.d) * limit.n, page.d * limit.d,
        page.n * limit.n, page.d * limit.d)

\* Array.from(this.users.values()).filter(isUser)
AllUsers ==
  SelectSeq([i \in 1..Len(order) |-> users[order[i]]], LAMBDA r : isUser(Entity(r)))

\* what the catch block of getUsers returns for a caught Error: a business
\* failure that carries the message of the error
QueryError(error) ==
  Failure([type |-> "business", code |-> "QUERY_ERROR", message |-> error.message])

\* the page of the sorted array, or the failure of a sort that threw
Listed(sorted, page, limit) ==
  IF Thrown(sorted) THEN QueryError(sorted.error)
  ELSE Success([users |-> PageOf(sorted.a, page, limit), total |-> Len(sorted.a),
                page |-> page, limit |-> limit])

\* options.page on null throws a TypeError before anything is read
getUsers(options) ==
  IF options = Null
  THEN QueryError([name |-> "TypeError",
                   message |-> [text |-> "Cannot read properties of null (reading 'page')"]])
  ELSE
  LET page == OrElse(Prop(options, "page"), Num(1))
      limit == OrElse(Prop(options, "limit"), Num(10))
      sortBy == OrElse(Prop(options, "sortBy"), Str(Chars("createdAt")))
      sortOrder == OrElse(Prop(options, "sortOrder"), Str(Chars("desc")))
  IN IF ~isPositiveNumber(page) \/ ~isPositiveNumber(limit)
     THEN ValidationFailure("pagination", "Page and limit must be positive numbers",
                            "INVALID_PAGINATION")
     ELSE Listed(sort(AllUsers, sortBy, sortOrder), page, limit)

\* the options callers pass to getUsers
ListOptions ==
  { Obj(NoProps),
    Obj([page |-> Num(0), limit |-> Num(101)]),
    Obj([page |-> Num(1), limit |-> Num(0)]),
    Obj([page |-> Num(-1), limit |-> Num(1)]),
    Obj([page |-> Num(1), limit |-> Num(1)]),
    Obj([page |-> Num(2), limit |-> Num(1)]),
    Obj([page |-> Frac(3, 1), limit |-> Num(2)]),
    Obj([sortBy |-> Str(Chars("name")), sortOrder |-> Str(Chars("desc"))]),
    Obj([sortBy |-> Str(Chars("createdAt")), sortOrder |-> Str(Chars("asc"))]),
    Obj([sortBy |-> Str(Chars("id")), sortOrder |-> Str(Chars("asc"))]),
    Obj([sortBy |-> Str(Chars("metadata"))]),
    Null }

(***************************************************************************)
(* Reading the audit log                                                   *)
(***************************************************************************)
\* the event object as the guards see it: its entity references followed
EventValue(e) ==
  Obj([type |-> Str(Chars(e.type)), timestamp |-> e.timestamp,
       data |->
         CASE e.type = "user_created" ->
                Obj([user |-> Entity(e.data.user), source |-> Str(Chars(e.data.source)),
                     metadata |-> e.data.metadata])
           [] e.type = "user_updated" ->
                Obj([userId |-> e.data.userId, changes |-> e.data.changes,
                     previousValues |-> Entity(e.data.previousValues),
                     updatedBy |-> Str(Chars(e.data.updatedBy))])
           [] e.type = "user_deleted" ->
                Obj([userId |-> e.data.userId, deletedBy |-> Str(Chars(e.data.deletedBy)),
                     reason |-> Str(Chars(e.data.reason)),
                     backup |-> Entity(e.data.backup)])])

\* mutant of ValidEvents: the log is returned without the check
ValidEvents_unchecked(log) == log

\* this.events.filter(isAPIEvent)
ValidEvents(log) == SelectSeq(log, LAMBDA e : isAPIEvent(EventValue(e)))

\* events.sort((a, b) => b.timestamp.getTime() - a.timestamp.getTime()), stable
NewestFirst(q) ==
  LET Before(i, j) ==
        \/ q[i].timestamp.t > q[j].timestamp.t
        \/ q[i].timestamp.t = q[j].timestamp.t /\ i < j
      Rank(j) == Cardinality({i \in 1..Len(q) : Before(i, j)}) + 1
  IN [r \in 1..Len(q) |-> q[CHOOSE j \in 1..Len(q) : Rank(j) = r]]

getEvents(filter) ==
  LET valid == ValidEvents(events)
      \* filter?.type
      type == IF filter.k \in {"undefined", "null"} THEN Undefined ELSE Prop(filter, "type")
      kept == IF Falsy(type) THEN valid
              ELSE SelectSeq(valid, LAMBDA e : Str(Chars(e.type)) = type)
  IN Success(NewestFirst(kept))

\* the filters callers pass to getEvents
EventFilters ==
  { Undefined,
    Obj([type |-> Str(Chars("user_created"))]),
    Obj([type |-> Str(Chars("user_deleted"))]) }

\* the initial state handed to useReducer, and useState<APIEvent[]>([])
InitialState ==
  [currentUser |-> Null, users |-> <<>>, events |-> <<>>, loading |-> FALSE, error |-> Null]

NoClient ==
  /\ mounted = "none"
  /\ state = InitialState
  /\ feed = <<>>
  /\ dispatched = <<>>
  /\ sinceReset = 0
  /\ handled = <<>>

Init ==
  /\ NoClient
  /\ heap = <<>>
  /\ users = <<>>
  /\ order = <<>>
  /\ events = <<>>
  /\ clock = 0
  /\ pending = <<>>
  /\ ret = [op |-> "none"]

\* createUser has no await: the whole body runs when it is called
CreateUser(userData) ==
  /\ Len(events) + Len(pending) < MaxEvents
  /\ \E sfx1 \in IdSuffixes :
       LET newUserData == NewUserData(userData, generateId(sfx1), clock, clock)
           validation == validateUser(Obj(newUserData))
       IN IF CreateRejected(validation)
          THEN /\ ret' = Returned("createUser", Undefined, userData, Undefined,
                                  ValidationFailure("userData", "Invalid user data",
                                                    "INVALID_USER_DATA"))
               /\ UNCHANGED <<heap, users, order, events, clock>>
          ELSE \E sfx2 \in IdSuffixes, tc \in clock..MaxTime :
                 \E tu \in tc..MaxTime : \E te \in tu..MaxTime :
                   \* validation.data is the object that was validated
                   LET user == StampUser(newUserData, generateId(sfx2), tc, tu)
                       r == Len(heap) + 1
                   IN /\ heap' = Append(heap, user)
                      /\ users' = Put(users, user.id.s, r)
                      /\ order' = KeysAfterSet(order, user.id.s)
                      /\ events' = Append(events, CreatedEvent(r, te))
                      /\ clock' = te
                      /\ ret' = Returned("createUser", Undefined, userData, Undefined,
                                         Success(r))
  /\ UNCHANGED <<pending, client>>

GetUserById(id) ==
  /\ ret' = Returned("getUserById", id, Undefined, Undefined, getUserById(id))
  /\ UNCHANGED <<heap, users, order, events, clock, pending, client>>

\* getUsers has no await: the whole body runs when it is called
GetUsers(options) ==
  /\ ret' = Returned("getUsers", Undefined, options, Undefined, getUsers(options))
  /\ UNCHANGED <<heap, users, order, events, clock, pending, client>>

\* getEvents has no await; filter and sort work on a copy of this.events
GetEvents(filter) ==
  /\ ret' = Returned("getEvents", Undefined, filter, Undefined, getEvents(filter))
  /\ UNCHANGED <<heap, users, order, events, clock, pending, client>>

\* updateUser after `await this.getUserById(id)` has delivered call.got
updateUserAfterAwait(call) ==
  LET Done(res) == Merge(Returned("updateUser", call.id, call.input, call.got, res),
                         [atCall |-> call.atCall])
  IN IF ~isSuccess(call.got)
     THEN /\ ret' = Done(call.got)
          /\ UNCHANGED <<heap, users, order, events, clock>>
     ELSE IF typeof(call.input) # "object" \/ call.input = Null
     THEN /\ ret' = Done(ValidationFailure("updates", "Updates must be an object",
                                           "INVALID_UPDATES"))
          /\ UNCHANGED <<heap, users, order, events, clock>>
     ELSE \E tu \in clock..MaxTime : \E te \in tu..MaxTime :
            LET existingUser == call.got.data
                updatedUserData == UpdatedUserData(heap[existingUser], call.input, tu)
                validation == validateUser(Obj(updatedUserData))
                r == Len(heap) + 1
            IN IF UpdateRejected(validation)
               THEN /\ ret' = Done(ValidationFailure("userData",
                                     "Updated user data is invalid", "INVALID_UPDATED_DATA"))
                    /\ UNCHANGED <<heap, users, order, events, clock>>
               ELSE /\ heap' = Append(heap, updatedUserData)
                    /\ users' = Put(users, call.id.s, r)
                    /\ order' = KeysAfterSet(order, call.id.s)
                    /\ events' = Append(events,
                                   UpdatedEvent(call.id, call.input, existingUser, te))
                    /\ clock' = te
                    /\ ret' = Done(Success(r))

\* mutant of deleteUserAfterAwait: the entity is removed and nothing is logged
deleteUserAfterAwait_notLogged(call) ==
  LET Done(res) == Merge(Returned("deleteUser", call.id, call.input, call.got, res),
                         [atCall |-> call.atCall])
  IN IF ~isSuccess(call.got)
     THEN /\ ret' = Done(call.got)
          /\ UNCHANGED <<heap, users, order, events, clock>>
     ELSE /\ users' = Remove(users, call.id.s)
          /\ order' = KeysAfterDelete(order, call.id.s)
          /\ ret' = Done(Success([message |-> [text |-> "User ${id} deleted successfully",
                                               id |-> call.id]]))
          /\ UNCHANGED <<heap, events, clock>>

\* deleteUser after `await this.getUserById(id)` has delivered call.got
deleteUserAfterAwait(call) ==
  LET Done(res) == Merge(Returned("deleteUser", call.id, call.input, call.got, res),
                         [atCall |-> call.atCall])
  IN IF ~isSuccess(call.got)
     THEN /\ ret' = Done(call.got)
          /\ UNCHANGED <<heap, users, order, events, clock>>
     ELSE \E te \in clock..MaxTime :
            /\ users' = Remove(users, call.id.s)
            /\ order' = KeysAfterDelete(order, call.id.s)
            /\ events' = Append(events, DeletedEvent(call.id, call.got.data, te))
            /\ clock' = te
            /\ ret' = Done(Success([message |-> [text |-> "User ${id} deleted successfully",
                                                 id |-> call.id]]))
            /\ UNCHANGED heap

\* updateUser up to `await this.getUserById(id)`: the lookup is made and the
\* call is suspended; the caller goes on, whether it awaits the result or not
UpdateUser(id, updates) ==
  /\ Len(events) + Len(pending) < MaxEvents + MaxOverlap
  /\ pending' = Append(pending, Suspended("updateUser", id, updates))
  /\ UNCHANGED <<heap, users, order, events, clock, ret, client>>

\* the suspended calls resume in the order in which they were made
UpdateUserResume ==
  /\ pending # <<>>
  /\ Head(pending).op = "updateUser"
  /\ pending' = Tail(pending)
  /\ UNCHANGED client
  /\ updateUserAfterAwait(Head(pending))

\* deleteUser up to `await this.getUserById(id)`
DeleteUser(id) ==
  /\ Len(events) + Len(pending) < MaxEvents + MaxOverlap
  /\ pending' = Append(pending, Suspended("deleteUser", id, Undefined))
  /\ UNCHANGED <<heap, users, order, events, clock, ret, client>>

DeleteUserResume ==
  /\ pending # <<>>
  /\ Head(pending).op = "deleteUser"
  /\ pending' = Tail(pending)
  /\ UNCHANGED client
  /\ deleteUserAfterAwait(Head(pending))

Next ==
  \/ \E userData \in CreateInputs : CreateUser(userData)
  \/ \E id \in IdArgs : GetUserById(id)
  \/ \E id \in IdArgs, updates \in UpdateInputs : UpdateUser(id, updates)
  \/ UpdateUserResume
  \/ \E id \in IdArgs : DeleteUser(id)
  \/ DeleteUserResume

Spec == Init /\ [][Next]_vars

(***************************************************************************)
(* A caller that writes to the entity object it was handed                 *)
(***************************************************************************)
ListedCreates == {Obj(Ann), Obj(Merge(Ann, [metadata |-> Str(<<"m">>)])), Null}

ListedUpdates == {Obj([age |-> Num(31)]), Num(5)}

ListedIds == {Str(key) : key \in DOMAIN users} \cup {Str(<<"u", "9">>)}

CallerWrites == {<<"age", Num(-1)>>, <<"name", Str(<<"Z">>)>>}

CallerMutates(w) ==
  /\ ret.op \in {"createUser", "getUserById", "updateUser"}
  /\ isSuccess(ret.res)
  /\ heap' = [heap EXCEPT ![ret.res.data] = Merge(@, [x \in {w[1]} |-> w[2]])]
  /\ UNCHANGED <<users, order, events, clock, pending, ret, client>>

NextCaller ==
  \/ \E userData \in ListedCreates : CreateUser(userData)
  \/ \E id \in ListedIds : GetUserById(id)
  \/ \E id \in ListedIds, updates \in ListedUpdates : UpdateUser(id, updates)
  \/ UpdateUserResume
  \/ \E id \in ListedIds : DeleteUser(id)
  \/ DeleteUserResume
  \/ \E w \in CallerWrites : CallerMutates(w)

SpecCaller == Init /\ [][NextCaller]_vars

(***************************************************************************)
(* A caller that also lists the store and reads the audit log              *)
(***************************************************************************)
\* the entities of a listed store: one of them has a metadata object made
\* without prototype, which isPlainObject accepts
QueryCreates == ListedCreates \cup {Obj(Merge(Ann, [metadata |-> NullProto(NoProps)]))}

NextQuery ==
  \/ \E userData \in QueryCreates : CreateUser(userData)
  \/ \E id \in ListedIds : GetUserById(id)
  \/ \E id \in ListedIds, updates \in ListedUpdates : UpdateUser(id, updates)
  \/ UpdateUserResume
  \/ \E id \in ListedIds : DeleteUser(id)
  \/ DeleteUserResume
  \/ \E options \in ListOptions : GetUsers(options)
  \/ \E filter \in EventFilters : GetEvents(filter)

SpecQuery == Init /\ [][NextQuery]_vars

(***************************************************************************)
(* The guards applied to untyped values that arrive from outside           *)
(***************************************************************************)
\* marks a property that the value does not have
Absent == [k |-> "absent"]

Present(c) == [p \in {q \in DOMAIN c : c[q] # Absent} |-> c[p]]

GoodUser ==
  Merge(Ann, [id |-> Str(<<"h">>), createdAt |-> DateV(0), updatedAt |-> DateV(0)])

UserValues ==
  { Obj(Present(c)) : c \in
      [ id : {Absent, Str(<<"h">>), Str(<<>>)},
        name : {Absent, Str(<<"A", "n", "n">>), Str(<<" ">>)},
        contact : {Absent, Obj([email |-> Email]), Obj([email |-> Str(<<"a", "@">>)])},
        age : {Absent, Num(30), Frac(1, 1)},
        isActive : {Absent, Bool(TRUE), Str(<<"y">>)},
        tags : {Absent, Arr(<<Str(<<"x">>)>>), Arr(<<Num(1)>>), Arr(<<Str(<<>>)>>)},
        createdAt : {Absent, DateV(0)},
        updatedAt : {Absent, DateV(0), InvalidDate},
        metadata : {Absent, Obj([plan |-> Str(<<"p">>)]), Str(<<"m">>)} ] }

\* a payload, the payload less one field, the payload with one field replaced
Variants(good, other) ==
  {good}
    \cup {[q \in DOMAIN good \ {p} |-> good[q]] : p \in DOMAIN good}
    \cup {Merge(good, [x \in {p} |-> other[p]]) : p \in DOMAIN other}

CreatedPayloads ==
  Variants([user |-> Obj(GoodUser), source |-> Str(Chars("admin"))],
           [user |-> Obj(Merge(GoodUser, [metadata |-> Str(<<"m">>)])),
            source |-> Str(<<"x">>), metadata |-> Str(<<"m">>)])

UpdatedPayloads ==
  Variants([userId |-> Str(<<"h">>), changes |-> Obj([age |-> Num(31)]),
            previousValues |-> Obj(GoodUser), updatedBy |-> Str(Chars("api"))],
           [userId |-> Str(<<>>), changes |-> Arr(<<Str(<<"y">>)>>),
            previousValues |-> Null, updatedBy |-> Num(1)])

DeletedPayloads ==
  Variants([userId |-> Str(<<"h">>), deletedBy |-> Str(Chars("api")),
            backup |-> Obj(GoodUser)],
           [deletedBy |-> Str(<<" ">>), backup |-> Obj([id |-> Str(<<"h">>)]),
            reason |-> Num(1)])

LoginPayloads ==
  Variants([userId |-> Str(<<"h">>), ip |-> Str(<<"1">>), userAgent |-> Str(<<"M">>),
            successful |-> Bool(TRUE)],
           [ip |-> Str(<<>>), successful |-> Str(<<"y">>), failureReason |-> Num(1)])

EventTypes ==
  { Absent, Num(1), Str(<<"x">>), Str(Chars("user_created")), Str(Chars("user_updated")),
    Str(Chars("user_deleted")), Str(Chars("user_login")) }

EventValues ==
  { Obj(Present([type |-> t, timestamp |-> ts, data |-> d])) :
      t \in EventTypes, ts \in {Absent, DateV(0), InvalidDate},
      d \in {Obj(f) : f \in CreatedPayloads \cup UpdatedPayloads
                              \cup DeletedPayloads \cup LoginPayloads}
             \cup {Absent, Null, DateV(0)} }

GuardInputs ==
  UserValues \cup EventValues
    \cup {Undefined, Null, Num(5), Str(<<"x">>), Arr(<<>>), Str(<<>>), Str(<<" ">>),
          Str(<<"\r">>), Num(-1), NaN}

\* the field names callers pass to the assertion functions
FieldNames == {"value", "userData"}

InitGuards ==
  /\ NoClient
  /\ heap = <<>>
  /\ users = <<>>
  /\ order = <<>>
  /\ events = <<>>
  /\ clock = 0
  /\ pending = <<>>
  /\ ret \in {[op |-> "input", input |-> v] : v \in GuardInputs}

IsUser ==
  /\ ret.op = "input"
  /\ ret' = [op |-> "isUser", input |-> ret.input, res |-> isUser(ret.input)]
  /\ UNCHANGED <<heap, users, order, events, clock, pending, client>>

\* the object of the caller that a validation accepted, as the call leaves it:
\* the data of the result is the argument itself (data: value as User), not a
\* copy, so what data holds is what the argument holds
Held(res) == IF res.isValid THEN <<OwnProps(res.data)>> ELSE <<>>

ValidateUser ==
  /\ ret.op = "input"
  /\ ret' = [op |-> "validateUser", input |-> ret.input, res |-> validateUser(ret.input)]
  /\ heap' = Held(validateUser(ret.input))
  /\ UNCHANGED <<users, order, events, clock, pending, client>>

IsAPIEvent ==
  /\ ret.op = "input"
  /\ ret' = [op |-> "isAPIEvent", input |-> ret.input, res |-> isAPIEvent(ret.input)]
  /\ UNCHANGED <<heap, users, order, events, clock, pending, client>>

\* validateUser applied to the data of a validation that succeeded, that is
\* to the caller's object as the first call left it
Revalidate ==
  /\ ret.op = "validateUser"
  /\ ret.res.isValid
  /\ ret' = [op |-> "revalidate", input |-> ret.input, first |-> ret.res,
             res |-> validateUser(Entity(1))]
  /\ heap' = Held(validateUser(Entity(1)))
  /\ UNCHANGED <<users, order, events, clock, pending, client>>

Asserted(op, fieldName, outcome) ==
  /\ ret.op = "input"
  /\ ret' = [op |-> op, input |-> ret.input, fieldName |-> fieldName, res |-> outcome]
  /\ UNCHANGED <<heap, users, order, events, clock, pending, client>>

AssertIsString(fieldName) ==
  Asserted("assertIsString", fieldName, assertIsString(ret.input, fieldName))

AssertIsNonEmptyString(fieldName) ==
  Asserted("assertIsNonEmptyString", fieldName, assertIsNonEmptyString(ret.input, fieldName))

AssertIsNumber(fieldName) ==
  Asserted("assertIsNumber", fieldName, assertIsNumber(ret.input, fieldName))

AssertIsPositiveNumber(fieldName) ==
  Asserted("assertIsPositiveNumber", fieldName, assertIsPositiveNumber(ret.input, fieldName))

AssertIsUser(fieldName) ==
  Asserted("assertIsUser", fieldName, assertIsUser(ret.input, fieldName))

NextGuards ==
  \/ IsUser
  \/ ValidateUser
  \/ IsAPIEvent
  \/ Revalidate
  \/ \E fieldName \in FieldNames : AssertIsString(fieldName)
  \/ \E fieldName \in FieldNames : AssertIsNonEmptyString(fieldName)
  \/ \E fieldName \in FieldNames : AssertIsNumber(fieldName)
  \/ \E fieldName \in FieldNames : AssertIsPositiveNumber(fieldName)
  \/ \E fieldName \in FieldNames : AssertIsUser(fieldName)

SpecGuards == InitGuards /\ [][NextGuards]_vars

(***************************************************************************)
(* The client: the reducer's event buffer and the EventLog feed            *)
(***************************************************************************)
\* the user of the registration built at tick n
MockUser(n) ==
  [id |-> Str(<<"u">>), name |-> Str(<<"U">>), contact |-> Obj([email |-> Email]),
   age |-> Num(18), isActive |-> Bool(TRUE), tags |-> Arr(<<Str(<<"n">>)>>),
   createdAt |-> DateV(n), updatedAt |-> DateV(n)]

\* the array mockEvents as built at tick n: a registration and a login, both stamped
\* with the time they are made; successful is Math.random() > 0.1
mockEvents(n, successful) ==
  <<Obj([type |-> Str(Chars("user_created")), timestamp |-> DateV(n),
         data |-> Obj([user |-> Obj(MockUser(n)),
                       source |-> Str(Chars("registration"))])]),
    Obj([type |-> Str(Chars("user_login")), timestamp |-> DateV(n),
         data |-> Obj([userId |-> Str(<<"u">>), ip |-> Str(<<"1">>),
                       userAgent |-> Str(<<"M">>), successful |-> Bool(successful)])])>>

\* the model follows every pick and every reducer case while the two
\* buffers were given fewer than MaxMixed events together
Early == Len(dispatched) + Len(handled) < MaxMixed

\* the values of randomEvent at tick n: either element of mockEvents,
\* whatever was picked before; past the first MaxMixed events the model
\* follows the picks of the registration only
randomEvent(n) ==
  IF Early
  THEN {mockEvents(n, successful)[i] : i \in 1..2, successful \in BOOLEAN}
  ELSE {mockEvents(n, TRUE)[1]}

\* whether every event of q is a registration
Registrations(q) ==
  \A i \in 1..Len(q) : Prop(q[i], "type") = Str(Chars("user_created"))

\* values that reach the buffers and are not events
BrokenEvents ==
  { Null,
    Obj([type |-> Str(Chars("user_login")), timestamp |-> DateV(0),
         data |-> Obj([userId |-> Str(<<"u">>), ip |-> Str(<<>>),
                       userAgent |-> Str(<<"M">>), successful |-> Bool(TRUE)])]) }

\* the values that are not events and are given to a buffer next: each of
\* them early on, null later
Rejected == IF Early THEN BrokenEvents ELSE {Null}

\* whether a behaviour goes on giving events to the buffer that got the
\* events mine, up to max of them: past the first MaxMixed events it does
\* when only registrations were picked, the other fields of the state are
\* the initial ones and the other buffer got as many events as one of filled
Followed(mine, max, other, filled) ==
  /\ Len(mine) < max
  /\ \/ Early
     \/ /\ Registrations(dispatched) /\ Registrations(handled)
        /\ [state EXCEPT !.events = <<>>] = InitialState
        /\ Len(other) \in filled

\* the payloads of the next ADD_EVENT action: the reducer's buffer is filled
\* beside an empty feed and beside a feed that got all of its events
Payloads ==
  Rejected \cup
    (IF Followed(dispatched, MaxDispatched, handled, {0, MaxHandled})
     THEN randomEvent(Len(dispatched) + 1) ELSE {})

\* the raw events the interval may hand to handleNewEvent next: the feed is
\* filled before the reducer's buffer is
RawEvents ==
  Rejected \cup
    (IF Followed(handled, MaxHandled, dispatched, {0})
     THEN randomEvent(Len(handled) + 1) ELSE {})

\* App renders AppProvider and, inside it, EventLog: the reducer's state and
\* the feed live side by side
InitClient ==
  /\ mounted = "App"
  /\ state = InitialState
  /\ feed = <<>>
  /\ dispatched = <<>>
  /\ sinceReset = 0
  /\ handled = <<>>
  /\ heap = <<>>
  /\ users = <<>>
  /\ order = <<>>
  /\ events = <<>>
  /\ clock = 0
  /\ pending = <<>>
  /\ ret = [op |-> "none"]

\* mutant of WithEvent: nothing is trimmed
WithEvent_untrimmed(kept, event, last) == <<event>> \o kept

\* [event, ...kept.slice(0, last)]
WithEvent(kept, event, last) == <<event>> \o Slice(kept, 0, 1, last, 1)

\* appReducer(state, {type: 'ADD_EVENT', payload})
AddEvent(payload) ==
  /\ mounted = "App"
  /\ IF ~isAPIEvent(payload)
     THEN UNCHANGED <<state, dispatched, sinceReset>>
     ELSE /\ state' = [state EXCEPT !.events = WithEvent(state.events, payload, 99)]
          /\ dispatched' = <<payload>> \o dispatched
          /\ sinceReset' = sinceReset + 1
  /\ ret' = [op |-> "ADD_EVENT", input |-> payload, before |-> state.events]
  /\ UNCHANGED <<heap, users, order, events, clock, pending, mounted, feed, handled>>

\* appReducer(state, {type: 'RESET_STATE'})
ResetState ==
  /\ mounted = "App"
  /\ state' = [currentUser |-> Null, users |-> <<>>, events |-> <<>>, loading |-> FALSE,
               error |-> Null]
  /\ sinceReset' = 0
  /\ ret' = [op |-> "RESET_STATE"]
  /\ UNCHANGED <<heap, users, order, events, clock, pending, mounted, feed, dispatched,
                 handled>>

\* handleNewEvent(rawEvent): the guard of useEventHandler, then setEvents
HandleNewEvent(rawEvent) ==
  /\ mounted = "App"
  /\ IF isAPIEvent(rawEvent)
     THEN /\ feed' = WithEvent(feed, rawEvent, 49)
          /\ handled' = <<rawEvent>> \o handled
     ELSE UNCHANGED <<feed, handled>>
  /\ ret' = [op |-> "handleNewEvent", input |-> rawEvent, before |-> feed]
  /\ UNCHANGED <<heap, users, order, events, clock, pending, mounted, state, dispatched,
                 sinceReset>>

\* appReducer(state, {type: 'SET_LOADING', payload})
SetLoading(payload) ==
  /\ mounted = "App"
  /\ Early
  /\ state' = [state EXCEPT !.loading = payload.b]
  /\ ret' = [op |-> "SET_LOADING"]
  /\ UNCHANGED <<heap, users, order, events, clock, pending, mounted, feed, dispatched,
                 sinceReset, handled>>

\* appReducer(state, {type: 'SET_ERROR', payload})
SetError(payload) ==
  /\ mounted = "App"
  /\ Early
  /\ state' = [state EXCEPT !.error = payload, !.loading = FALSE]
  /\ ret' = [op |-> "SET_ERROR"]
  /\ UNCHANGED <<heap, users, order, events, clock, pending, mounted, feed, dispatched,
                 sinceReset, handled>>

\* appReducer(state, {type: 'SET_CURRENT_USER', payload})
SetCurrentUser(payload) ==
  /\ mounted = "App"
  /\ Early
  /\ state' = [state EXCEPT !.currentUser = payload]
  /\ ret' = [op |-> "SET_CURRENT_USER"]
  /\ UNCHANGED <<heap, users, order, events, clock, pending, mounted, feed, dispatched,
                 sinceReset, handled>>

\* appReducer(state, {type: 'ADD_USER', payload})
AddUser(payload) ==
  /\ mounted = "App"
  /\ Early
  /\ Len(state.users) < MaxUsers
  /\ state' = IF ~isUser(payload) THEN state
              ELSE [state EXCEPT !.users = state.users \o <<payload>>]
  /\ ret' = [op |-> "ADD_USER"]
  /\ UNCHANGED <<heap, users, order, events, clock, pending, mounted, feed, dispatched,
                 sinceReset, handled>>

\* appReducer(state, {type: 'UPDATE_USER', payload}); new Date() is the
\* tick the action is dispatched in
UpdateStateUser(payload) ==
  /\ mounted = "App"
  /\ Early
  /\ state' = [state EXCEPT !.users =
                 [i \in 1..Len(state.users) |->
                    IF Prop(state.users[i], "id") = payload.id
                    THEN Obj(Merge(Merge(OwnProps(state.users[i]), payload.updates),
                                   [updatedAt |-> DateV(Len(dispatched))]))
                    ELSE state.users[i]]]
  /\ ret' = [op |-> "UPDATE_USER"]
  /\ UNCHANGED <<heap, users, order, events, clock, pending, mounted, feed, dispatched,
                 sinceReset, handled>>

\* appReducer(state, {type: 'REMOVE_USER', payload})
RemoveUser(payload) ==
  /\ mounted = "App"
  /\ Early
  /\ state' = [state EXCEPT
                 !.users = SelectSeq(state.users, LAMBDA user : Prop(user, "id") # payload),
                 !.currentUser = IF state.currentUser # Null
                                    /\ Prop(state.currentUser, "id") = payload
                                 THEN Null ELSE state.currentUser]
  /\ ret' = [op |-> "REMOVE_USER"]
  /\ UNCHANGED <<heap, users, order, events, clock, pending, mounted, feed, dispatched,
                 sinceReset, handled>>

NextClient ==
  \/ \E payload \in Payloads : AddEvent(payload)
  \/ ResetState
  \/ \E payload \in {Bool(TRUE), Bool(FALSE)} : SetLoading(payload)
  \/ \E payload \in {Null, Obj([type |-> Str(Chars("business")), code |-> Str(<<"E">>),
                                  message |-> Str(<<"m">>)])} : SetError(payload)
  \/ \E payload \in {Null, Obj(MockUser(0))} : SetCurrentUser(payload)
  \/ \E payload \in {Null, Obj(MockUser(0))} : AddUser(payload)
  \/ \E id \in {Str(<<"u">>), Str(<<"x">>)} :
       UpdateStateUser([id |-> id, updates |-> [name |-> Str(<<"V">>)]])
  \/ \E payload \in {Str(<<"u">>), Str(<<"x">>)} : RemoveUser(payload)
  \/ \E rawEvent \in RawEvents : HandleNewEvent(rawEvent)

SpecClient == InitClient /\ [][NextClient]_vars

(***************************************************************************)
(* The request-body check of the creation route: what a well-formed        *)
(* creation input is                                                       *)
(***************************************************************************)
validateUserCreation(body) ==
  isUser(Obj(Merge([id |-> Str(<<"t", "e", "m", "p">>), createdAt |-> DateV(0),
                    updatedAt |-> DateV(0)], OwnProps(body))))

(***************************************************************************)
(* Properties                                                              *)
(***************************************************************************)
StoredIds == DOMAIN users
Last(q) == q[Len(q)]
\* the id was a key of the store when the returning call wrote its result
IsStoredBefore(id) == isString(id) /\ id.s \in DOMAIN ret.usersBefore
\* the id was a key of the store when the returning call was made
IsStoredAtCall == ret.atCall # <<>>
\* the entity the store held under the id when the returning call was made
EntityAtCall == ret.atCall[1]
ErrorIs(res, type, code) ==
  /\ ~res.success
  /\ res.error.type = type
  /\ res.error.code = code
SystemFields == {"id", "createdAt", "updatedAt"}

\* C1: every entity held in the store passes the fast entity check isUser,
\* the optional metadata check included.
C1_StoredEntitiesPassIsUser ==
  \A key \in StoredIds : isUser(Entity(users[key]))

\* C2: a createUser whose input fails detailed validation returns a failure of
\* kind validation and leaves the stored entities and the event log as they were.
C2_RejectedCreateChangesNothing ==
  (ret.op = "createUser" /\ ~validateUser(Obj(NewUserData(ret.input, generateId("a"), 0, 0))).isValid)
    => /\ ~ret.res.success
       /\ ret.res.error.type = "validation"
       /\ users = ret.usersBefore
       /\ events = ret.eventsBefore

C2_Witness ==
  /\ ret.op = "createUser"
  /\ ~ret.res.success
  /\ ret.input = Obj(Merge(Ann, [age |-> Num(-1)]))
  /\ StoredIds # {}
  /\ events # <<>>

\* C3: for a well-formed input createUser succeeds, and getUserById with the
\* returned id then succeeds with an entity whose name, contact, age, isActive
\* and tags equal the input and whose id, createdAt and updatedAt are present.
C3_CreateThenGet ==
  (ret.op = "createUser" /\ validateUserCreation(ret.input))
    => /\ ret.res.success
       /\ LET got == getUserById(Prop(Entity(ret.res.data), "id"))
          IN /\ got.success
             /\ \A p \in {"name", "contact", "age", "isActive", "tags"} :
                  /\ HasProp(Entity(got.data), p)
                  /\ Prop(Entity(got.data), p) = Prop(ret.input, p)
             /\ \A p \in SystemFields : HasProp(Entity(got.data), p)

C3_Witness ==
  /\ ret.op = "createUser"
  /\ validateUserCreation(ret.input)
  /\ ret.res.success
  /\ Cardinality(StoredIds) = 2

\* C4: a successful updateUser returns and stores an entity whose id and
\* createdAt are those of the entity that was stored when the call was made,
\* also when the partial input carries other values for id or createdAt.
C4_UpdatePreservesIdAndCreatedAt ==
  (ret.op = "updateUser" /\ ret.res.success)
    => /\ IsStoredAtCall
       /\ ret.id.s \in StoredIds
       /\ users[ret.id.s] = ret.res.data
       /\ LET before == heap[EntityAtCall]
              after == heap[ret.res.data]
          IN /\ after.id = before.id
             /\ after.createdAt = before.createdAt

C4_Witness ==
  /\ ret.op = "updateUser"
  /\ ret.res.success
  /\ HasProp(ret.input, "id")
  /\ HasProp(ret.input, "createdAt")
  /\ Prop(ret.input, "id") # heap[ret.res.data].id
  /\ Prop(ret.input, "createdAt") # heap[ret.res.data].createdAt

\* C5: updateUser changes the store and the log only on success.  A merged
\* entity that fails validation, or updates that are not an object, leave both
\* unchanged; on success the store maps the id to the merged entity and exactly
\* one user_updated event is appended, whose previousValues are the entity
\* that was stored when the call was made.
C5_UpdateOnlyOnSuccess ==
  ret.op = "updateUser" =>
    IF ret.res.success
    THEN /\ IsStoredAtCall
         /\ users = Put(ret.usersBefore, ret.id.s, ret.res.data)
         /\ typeof(ret.input) = "object" /\ ret.input # Null
         /\ LET before == heap[EntityAtCall]
                after == heap[ret.res.data]
                given == OwnProps(ret.input)
            IN /\ validateUser(Obj(after)).isValid
               /\ DOMAIN after = DOMAIN before \cup DOMAIN given \cup SystemFields
               /\ \A p \in DOMAIN after \ {"updatedAt"} :
                    after[p] = IF p \in DOMAIN given \ SystemFields THEN given[p]
                               ELSE before[p]
               /\ Len(events) = Len(ret.eventsBefore) + 1
               /\ SubSeq(events, 1, Len(ret.eventsBefore)) = ret.eventsBefore
               /\ Last(events).type = "user_updated"
               /\ Last(events).data.previousValues = EntityAtCall
    ELSE /\ users = ret.usersBefore
         /\ events = ret.eventsBefore

C5_Witness ==
  /\ ret.op = "updateUser"
  /\ ret.res.success
  /\ ret.input = Obj([age |-> Num(31)])
  /\ heap[ret.res.data].age = Num(31)

\* C6: deleteUser succeeds for every id that is in the store when the call is
\* made: the entity is removed, exactly one user_deleted event with the removed
\* entity as backup is appended, a confirmation message is returned, and
\* getUserById then answers business/NOT_FOUND.
C6_DeleteOfStoredIdSucceeds ==
  (ret.op = "deleteUser" /\ IsStoredAtCall)
    => /\ ret.res.success
       /\ users = Remove(ret.usersBefore, ret.id.s)
       /\ Len(events) = Len(ret.eventsBefore) + 1
       /\ SubSeq(events, 1, Len(ret.eventsBefore)) = ret.eventsBefore
       /\ Last(events).type = "user_deleted"
       /\ Last(events).data.backup = EntityAtCall
       /\ "message" \in DOMAIN ret.res.data
       /\ ErrorIs(getUserById(ret.id), "business", "NOT_FOUND")

\* C7 as stated: deleteUser on an id that is not in the store when the call is
\* made returns business/NOT_FOUND and leaves the number of entities and of
\* events unchanged.
C7_DeleteOfMissingIdIsNotFound ==
  (ret.op = "deleteUser" /\ ~IsStoredAtCall)
    => /\ ErrorIs(ret.res, "business", "NOT_FOUND")
       /\ Cardinality(StoredIds) = Cardinality(DOMAIN ret.usersBefore)
       /\ Len(events) = Len(ret.eventsBefore)

\* C7 amended: deleteUser on an id that is not in the store when the call is
\* made returns business/NOT_FOUND when the id is a non-empty string and
\* validation/INVALID_ID when it is not; in both cases the number of entities
\* and of events is unchanged.
C7_DeleteOfMissingIdFails ==
  (ret.op = "deleteUser" /\ ~IsStoredAtCall)
    => /\ IF isNonEmptyString(ret.id)
          THEN ErrorIs(ret.res, "business", "NOT_FOUND")
          ELSE ErrorIs(ret.res, "validation", "INVALID_ID")
       /\ Cardinality(StoredIds) = Cardinality(DOMAIN ret.usersBefore)
       /\ Len(events) = Len(ret.eventsBefore)

C7_Witness ==
  /\ ret.op = "deleteUser"
  /\ ret.id = Str(<<"u", "9">>)
  /\ ErrorIs(ret.res, "business", "NOT_FOUND")
  /\ StoredIds # {}
  /\ events # <<>>

\* C8: getUserById answers validation for an id that is not a non-empty string,
\* business/NOT_FOUND for a non-empty id absent from the store,
\* business/DATA_CORRUPTION without data for a stored value that fails isUser,
\* and success with the stored entity otherwise; it changes neither the store
\* nor the log.
C8_GetClassifies ==
  ret.op = "getUserById" =>
    /\ users = ret.usersBefore
    /\ events = ret.eventsBefore
    /\ CASE ~(isString(ret.id) /\ Len(trim(ret.id.s)) > 0) ->
              /\ ~ret.res.success
              /\ ret.res.error.type = "validation"
              /\ "data" \notin DOMAIN ret.res
         [] isString(ret.id) /\ Len(trim(ret.id.s)) > 0 /\ ret.id.s \notin StoredIds ->
              /\ ErrorIs(ret.res, "business", "NOT_FOUND")
              /\ "data" \notin DOMAIN ret.res
         [] isString(ret.id) /\ Len(trim(ret.id.s)) > 0 /\ ret.id.s \in StoredIds
              /\ ~isUser(Entity(users[ret.id.s])) ->
              /\ ErrorIs(ret.res, "business", "DATA_CORRUPTION")
              /\ "data" \notin DOMAIN ret.res
         [] OTHER ->
              /\ ret.res.success
              /\ ret.res.data = users[ret.id.s]
              /\ "error" \notin DOMAIN ret.res

C8_Witness ==
  /\ ret.op = "getUserById"
  /\ ErrorIs(ret.res, "business", "DATA_CORRUPTION")
  /\ ret.id.s \in StoredIds

\* C9: overlapping updateUser calls on one id behave as some serial execution:
\* each successful update is the merge of its changes over the entity that is
\* stored when it writes, so the stored entity carries the changes of both
\* calls and no update is lost.
C9_OverlappingUpdatesSerialize ==
  (ret.op = "updateUser" /\ ret.res.success)
    => /\ IsStoredBefore(ret.id)
       /\ LET overwritten == heap[ret.usersBefore[ret.id.s]]
              after == heap[ret.res.data]
              given == OwnProps(ret.input)
          IN \A p \in DOMAIN overwritten \ {"updatedAt"} :
               /\ p \in DOMAIN after
               /\ after[p] = IF p \in DOMAIN given \ SystemFields THEN given[p]
                             ELSE overwritten[p]

\* C10: an entity handed to a caller is never the store's live object: whatever
\* the caller writes to it, the entities the store holds and the entities the
\* audit events carry stay as they were stored.
C10_StoredObjectsAreNotShared ==
  [][\A r \in 1..Len(heap) : heap'[r] = heap[r]]_vars

\* C11: fast narrowing and detailed validation decide the same shape:
\* isUser(value) is true exactly when validateUser(value).isValid is true.
C11_ModesAgree ==
  /\ ret.op = "isUser" => (ret.res <=> validateUser(ret.input).isValid)
  /\ ret.op = "validateUser" => (ret.res.isValid <=> isUser(ret.input))

RequiredFields ==
  {"id", "name", "contact", "age", "isActive", "tags", "createdAt", "updatedAt"}

\* the requirement the entity shape puts on one required field
FieldPasses(v, p) ==
  /\ HasProp(v, p)
  /\ CASE p \in {"id", "name"} -> isNonEmptyString(Prop(v, p))
       [] p = "contact" -> isContactInfo(Prop(v, p))
       [] p = "age" -> isPositiveNumber(Prop(v, p)) /\ isInteger(Prop(v, p))
       [] p = "isActive" -> isBoolean(Prop(v, p))
       [] p = "tags" -> /\ isArray(Prop(v, p))
                        /\ \A i \in 1..Len(Prop(v, p).e) : isString(Prop(v, p).e[i])
       [] p \in {"createdAt", "updatedAt"} -> isDate(Prop(v, p))

EntriesFor(errors, p) == {i \in 1..Len(errors) : errors[i].field = p}

\* C12: for an object input validateUser collects all failures: exactly one
\* entry for each required field that fails its own check, none for a field that
\* passes, a non-empty list exactly when isValid is false, and a failing contact
\* reported once as field contact with the whole contact value.
C12_AllFailuresCollected ==
  (ret.op = "validateUser" /\ isObject(ret.input)) =>
    LET errors == ret.res.errors
    IN /\ \A p \in RequiredFields :
            Cardinality(EntriesFor(errors, p)) = IF FieldPasses(ret.input, p) THEN 0 ELSE 1
       /\ \A i \in 1..Len(errors) : errors[i].field \in RequiredFields
       /\ (Len(errors) > 0) <=> ~ret.res.isValid
       /\ \A i \in EntriesFor(errors, "contact") :
            errors[i].value = Prop(ret.input, "contact")

C12_Witness ==
  /\ ret.op = "validateUser"
  /\ isObject(ret.input)
  /\ HasProp(ret.input, "contact")
  /\ ~FieldPasses(ret.input, "contact")
  /\ ~FieldPasses(ret.input, "age")
  /\ FieldPasses(ret.input, "name")
  /\ Len(ret.res.errors) >= 3
  /\ \E i \in 1..Len(ret.res.errors) :
       /\ ret.res.errors[i].field = "contact"
       /\ ret.res.errors[i].value = Obj([email |-> Str(<<"a", "@">>)])

\* C13: when a required field F is absent from an object input, validateUser
\* reports exactly one entry for F and its message is the "missing or invalid"
\* message, not a type-mismatch message.
C13_MissingFieldMessage ==
  (ret.op = "validateUser" /\ isObject(ret.input)) =>
    \A p \in RequiredFields :
      ~HasProp(ret.input, p) =>
        /\ Cardinality(EntriesFor(ret.res.errors, p)) = 1
        /\ \A i \in EntriesFor(ret.res.errors, p) :
             ret.res.errors[i].message = "Missing or invalid " \o p \o " field"

EventKinds ==
  {Chars("user_created"), Chars("user_updated"), Chars("user_deleted"), Chars("user_login")}

\* the fields the APIEvent type requires in the payload of each kind
VariantFields(kind) ==
  CASE kind = Chars("user_created") -> {"user", "source"}
    [] kind = Chars("user_updated") -> {"userId", "changes", "previousValues", "updatedBy"}
    [] kind = Chars("user_deleted") -> {"userId", "deletedBy", "backup"}
    [] kind = Chars("user_login") -> {"userId", "ip", "userAgent", "successful"}

EnvelopeValid(v) ==
  /\ isObject(v)
  /\ HasProp(v, "type") /\ isString(Prop(v, "type"))
  /\ HasProp(v, "timestamp") /\ isDate(Prop(v, "timestamp"))
  /\ HasProp(v, "data") /\ isObject(Prop(v, "data"))

\* C19: isAPIEvent accepts a value only if the envelope is valid, the type is
\* one of the four kinds and the payload has that kind's required fields with a
\* valid entity where one is carried; an unknown or missing discriminant and a
\* payload that misses a required field are rejected.
C19_UnknownEventsRejected ==
  ret.op = "isAPIEvent" =>
    LET v == ret.input
    IN /\ ret.res =>
            /\ EnvelopeValid(v)
            /\ Prop(v, "type").s \in EventKinds
            /\ \A p \in VariantFields(Prop(v, "type").s) : HasProp(Prop(v, "data"), p)
            /\ \A p \in {"user", "backup"} \cap VariantFields(Prop(v, "type").s) :
                 isUser(Prop(Prop(v, "data"), p))
       /\ (~isObject(v) \/ ~HasProp(v, "type")) => ~ret.res
       /\ (EnvelopeValid(v) /\ Prop(v, "type").s \notin EventKinds) => ~ret.res
       /\ (EnvelopeValid(v) /\ Prop(v, "type").s \in EventKinds
             /\ \E p \in VariantFields(Prop(v, "type").s) : ~HasProp(Prop(v, "data"), p))
            => ~ret.res

C19_Witness ==
  /\ ret.op = "isAPIEvent"
  /\ EnvelopeValid(ret.input)
  /\ Prop(ret.input, "type") = Str(<<"x">>)
  /\ Prop(ret.input, "data") \in {Obj(f) : f \in LoginPayloads}
  /\ \A p \in VariantFields(Chars("user_login")) : HasProp(Prop(ret.input, "data"), p)
  /\ ret.res = FALSE

\* the numbers a caller passed as page and limit
Given(options, p) == HasProp(options, p) /\ isNumber(Prop(options, p))

OutOfRange(options) ==
  \/ Given(options, "page") /\ Prop(options, "page").n < Prop(options, "page").d
  \/ Given(options, "limit") /\ Prop(options, "limit").n < Prop(options, "limit").d
  \/ Given(options, "limit") /\ Prop(options, "limit").n > 100 * Prop(options, "limit").d

\* C14: getUsers answers every out-of-range pagination argument (page < 1,
\* limit < 1, limit > 100; zero included) with a validation failure and no page
\* of users.
C14_OutOfRangeRejected ==
  (ret.op = "getUsers" /\ OutOfRange(ret.input)) =>
    /\ ~ret.res.success
    /\ ret.res.error.type = "validation"

\* the stored entities that the listing filter keeps
Matching == {users[key] : key \in {k \in DOMAIN users : isUser(Entity(users[k]))}}

InRange(options) ==
  /\ isObject(options)
  /\ \A p \in {"page", "limit"} :
       HasProp(options, p) => isInteger(Prop(options, p)) /\ Prop(options, p).n >= 1
  /\ HasProp(options, "limit") => Prop(options, "limit").n <= 100

RECURSIVE PagesUpTo(_, _)
\* the users of pages 1..n of the listing that options asks for, in order
PagesUpTo(options, n) ==
  IF n = 0 THEN <<>>
  ELSE PagesUpTo(options, n - 1)
         \o getUsers(Obj(Merge(options.f, [page |-> Num(n)]))).data.users

\* C15: for every store content, an integer page >= 1 and a limit in 1..100,
\* getUsers returns at most limit users, total is the size of the full
\* matching set whatever the page, and the pages 1..ceil(total/limit) in order
\* hold every matching entity exactly once, the returned page being its own
\* segment of them.
C15_PagesPartitionTheSet ==
  (ret.op = "getUsers" /\ InRange(ret.input)) =>
    /\ ret.res.success
    /\ LET data == ret.res.data
           limit == data.limit.n
           page == data.page.n
           all == PagesUpTo(ret.input, (data.total + limit - 1) \div limit)
           last == IF page * limit < data.total THEN page * limit ELSE data.total
       IN /\ Len(data.users) <= limit
          /\ data.total = Cardinality(Matching)
          /\ Len(all) = data.total
          /\ {all[i] : i \in 1..Len(all)} = Matching
          /\ data.users = SubSeq(all, (page - 1) * limit + 1, last)

\* where an entity stands in the insertion order of the store
Position(r) == CHOOSE i \in 1..Len(order) : users[order[i]] = r

RequestedField(options) ==
  IF HasProp(options, "sortBy") THEN Prop(options, "sortBy") ELSE Str(Chars("createdAt"))

Descending(options) ==
  ~HasProp(options, "sortOrder") \/ Prop(options, "sortOrder") = Str(Chars("desc"))

\* C16: getUsers orders the full set by the requested field in the requested
\* direction, by creation time descending when none is given, and entities
\* with equal values of the sort field keep their insertion order in both
\* directions: a call that gives no page and no limit answers with the
\* whole set in that order.
C16_SortedAndStable ==
  (ret.op = "getUsers" /\ isObject(ret.input) /\ ~HasProp(ret.input, "page")
     /\ ~HasProp(ret.input, "limit") /\ Cardinality(Matching) <= 10) =>
    /\ ret.res.success
    /\ LET listed == ret.res.data.users
           Value(i) == ValueAt(heap[listed[i]], RequestedField(ret.input))
       IN /\ {listed[i] : i \in 1..Len(listed)} = Matching
          /\ \A i, j \in 1..Len(listed) :
               i < j =>
                 /\ IF Descending(ret.input) THEN ~Less(Value(i), Value(j))
                    ELSE ~Less(Value(j), Value(i))
                 /\ (~Less(Value(i), Value(j)) /\ ~Less(Value(j), Value(i)))
                      => Position(listed[i]) < Position(listed[j])

\* the kind of event each state-changing operation logs
LoggedKind(op) ==
  CASE op = "createUser" -> "user_created"
    [] op = "updateUser" -> "user_updated"
    [] op = "deleteUser" -> "user_deleted"

\* C17: the audit log is append-only: a createUser, updateUser or deleteUser
\* that returns success appends exactly one event of its kind at the end, every
\* other step (getUserById, getUsers, getEvents, any failed call, a call that
\* is suspended at its await) appends none, and no step removes, reorders or
\* changes an event already in the log.
C17_LogIsAppendOnly ==
  [][ /\ IF /\ Len(pending') <= Len(pending)
            /\ ret'.op \in {"createUser", "updateUser", "deleteUser"}
            /\ ret'.res.success
         THEN /\ Len(events') = Len(events) + 1
              /\ events'[Len(events')].type = LoggedKind(ret'.op)
         ELSE Len(events') = Len(events)
      /\ \A i \in 1..Len(events) :
           /\ i <= Len(events')
           /\ events'[i] = events[i]
           /\ EventValue(events[i])' = EventValue(events[i]) ]_vars

C17_Witness ==
  /\ ret.op = "deleteUser"
  /\ ret.res.success
  /\ Len(events) = 2
  /\ events[2].type = "user_deleted"
  /\ events[1].type = "user_created"
  /\ <<events[1]>> = ret.eventsBefore

\* C18: getEvents always succeeds and returns exactly the log events that
\* pass isAPIEvent, of the requested kind when a filter is given, newest
\* timestamp first; invalid events are left out without an error and the
\* stored log keeps its content and order.
C18_EventsListedNewestFirst ==
  ret.op = "getEvents" =>
    /\ ret.res.success
    /\ LET out == ret.res.data
           kind == IF isObject(ret.input) THEN Prop(ret.input, "type") ELSE Undefined
           wanted == {i \in 1..Len(events) :
                       /\ isAPIEvent(EventValue(events[i]))
                       /\ kind # Undefined => Str(Chars(events[i].type)) = kind}
       IN /\ {out[i] : i \in 1..Len(out)} = {events[i] : i \in wanted}
          /\ Len(out) = Cardinality(wanted)
          /\ \A i, j \in 1..Len(out) : i < j => out[i].timestamp.t >= out[j].timestamp.t
    /\ events = ret.eventsBefore

C18_Witness ==
  /\ ret.op = "getEvents"
  /\ ret.input = Undefined
  /\ Len(events) = 2
  /\ ~isAPIEvent(EventValue(events[1]))
  /\ ret.res.success
  /\ ret.res.data = <<events[2]>>

Operations ==
  {"createUser", "getUserById", "getUsers", "updateUser", "deleteUser", "getEvents"}

\* C20: every call of a store operation ends with a result that has either
\* success true, data and no error, or success false, error and no data, and
\* isSuccess and isFailure give opposite answers on it.
C20_ResultsAreExclusive ==
  ret.op \in Operations =>
    /\ \/ ret.res.success = TRUE /\ DOMAIN ret.res = {"success", "data"}
       \/ ret.res.success = FALSE /\ DOMAIN ret.res = {"success", "error"}
    /\ isSuccess(ret.res) # isFailure(ret.res)

C20_Witness ==
  /\ ret.op = "getUsers"
  /\ ret.input = Null
  /\ isFailure(ret.res)
  /\ ~isSuccess(ret.res)
  /\ ret.res.error.code = "QUERY_ERROR"
  /\ Len(events) = 2

\* C21: every stored entity has updatedAt >= createdAt, and a successful
\* updateUser sets updatedAt to the time of that update, not earlier than the
\* previous updatedAt, whatever updatedAt the partial input carries.
C21_UpdatedAtIsRefreshed ==
  /\ \A key \in StoredIds :
       LET user == heap[users[key]]
       IN isDate(user.createdAt) /\ isDate(user.updatedAt)
          /\ user.updatedAt.t >= user.createdAt.t
  /\ (ret.op = "updateUser" /\ ret.res.success) =>
       LET before == heap[EntityAtCall]
           after == heap[ret.res.data]
       IN /\ isDate(after.updatedAt)
          /\ after.updatedAt.t >= before.updatedAt.t
          /\ IsStoredBefore(ret.id) =>
               after.updatedAt.t >= heap[ret.usersBefore[ret.id.s]].updatedAt.t
          /\ after.updatedAt.t >= Last(ret.eventsBefore).timestamp.t
          /\ after.updatedAt.t <= Last(events).timestamp.t

C21_Witness ==
  /\ ret.op = "updateUser"
  /\ ret.res.success
  /\ Prop(ret.input, "updatedAt") = InvalidDate
  /\ heap[ret.res.data].updatedAt = DateV(1)
  /\ heap[EntityAtCall].updatedAt = DateV(0)

\* C22: right after a successful createUser the stored and returned entity
\* has updatedAt equal to createdAt.
C22_CreatedWithEqualTimestamps ==
  (ret.op = "createUser" /\ ret.res.success) =>
    LET user == heap[ret.res.data]
    IN /\ users[user.id.s] = ret.res.data
       /\ user.updatedAt = user.createdAt

\* C23: ids are unique within the store: a successful createUser stores the
\* new entity under a generated id that was not a key before, the store grows
\* by one, the entities stored before are still stored under their ids,
\* unchanged, and the entity stored under a key k has id k.
C23_IdsAreUnique ==
  /\ \A key \in StoredIds : heap[users[key]].id = Str(key)
  /\ (ret.op = "createUser" /\ ret.res.success) =>
       LET id == heap[ret.res.data].id.s
       IN /\ id \notin DOMAIN ret.usersBefore
          /\ (HasProp(ret.input, "id") => Prop(ret.input, "id") # Str(id))
          /\ Cardinality(StoredIds) = Cardinality(DOMAIN ret.usersBefore) + 1
          /\ \A key \in DOMAIN ret.usersBefore :
               key \in StoredIds /\ users[key] = ret.usersBefore[key]

\* C24: createUser with an otherwise well-formed input whose age is -1
\* returns a failure whose error names the field age.
C24_RejectionNamesTheField ==
  (ret.op = "createUser" /\ ret.input = Obj(Merge(Ann, [age |-> Num(-1)]))) =>
    /\ ~ret.res.success
    /\ ret.res.error.field = "age"

NonEmptyStrings(tags) ==
  /\ isArray(tags)
  /\ \A i \in 1..Len(tags.e) : isNonEmptyString(tags.e[i])

\* C25: every value that isUser or validateUser accepts has a tags sequence
\* whose elements are all non-empty strings; tags that contain an empty string
\* are rejected.
C25_TagsAreNonEmptyStrings ==
  /\ (ret.op = "isUser" /\ ret.res) => NonEmptyStrings(Prop(ret.input, "tags"))
  /\ (ret.op = "validateUser" /\ ret.res.isValid)
       => NonEmptyStrings(Prop(ret.input, "tags"))

AssertionHelpers ==
  {"assertIsString", "assertIsNonEmptyString", "assertIsNumber", "assertIsPositiveNumber",
   "assertIsUser"}

\* the predicate each assertion helper narrows by
PredicateOf(op, v) ==
  CASE op = "assertIsString" -> isString(v)
    [] op = "assertIsNonEmptyString" -> isNonEmptyString(v)
    [] op = "assertIsNumber" -> isNumber(v)
    [] op = "assertIsPositiveNumber" -> isPositiveNumber(v)
    [] op = "assertIsUser" -> isUser(v)

\* C27: an assertion helper returns normally exactly when its predicate
\* accepts the value, and otherwise raises an error that carries the field
\* name, the received value and the expected description.
C27_AssertionsFollowPredicates ==
  ret.op \in AssertionHelpers =>
    /\ ~ret.res.threw <=> PredicateOf(ret.op, ret.input)
    /\ ret.res.threw =>
         /\ ret.res.error.message.field = ret.fieldName
         /\ ret.res.error.value = ret.input
         /\ ret.res.error.expected.text # ""

\* the id an event of the log is about
SubjectOf(e) ==
  IF e.type = "user_created" THEN heap[e.data.user].id ELSE e.data.userId

\* C28: a deletion is final: once deleteUser(id) has logged its success, the
\* id is in the store in no later state, also when an updateUser(id) that read
\* the entity before the deletion is still in flight: no user_created or
\* user_updated event for the id follows its user_deleted event.
C28_DeletionIsFinal ==
  \A i \in 1..Len(events) :
    events[i].type = "user_deleted" =>
      /\ events[i].data.userId.s \notin DOMAIN users
      /\ \A j \in (i + 1)..Len(events) :
           events[j].type \in {"user_created", "user_updated"}
             => SubjectOf(events[j]) # events[i].data.userId

\* C29: every event that createUser, updateUser and deleteUser append passes
\* isAPIEvent, whatever input the call succeeded with, so an unfiltered
\* getEvents returns as many events as there were successful mutations.
C29_LoggedEventsAreValid ==
  /\ \A i \in 1..Len(events) : isAPIEvent(EventValue(events[i]))
  /\ Len(getEvents(Undefined).data) = Len(events)

EventsCapacity == 100
FeedCapacity == 50

\* the first n elements of q, all of q when it is shorter
Newest(q, n) == SubSeq(q, 1, IF Len(q) < n THEN Len(q) ELSE n)

FeedIsBounded ==
  /\ Len(feed) <= FeedCapacity
  /\ feed = Newest(handled, FeedCapacity)
  /\ (ret.op = "handleNewEvent" /\ ~isAPIEvent(ret.input)) => feed = ret.before

RejectedLeavesEvents ==
  (ret.op = "ADD_EVENT" /\ ~isAPIEvent(ret.input)) => state.events = ret.before

\* C30 as stated: after any sequence of actions state.events holds at most 100
\* events and the EventLog feed at most 50, each being exactly the most
\* recently added valid events, newest first; a value that fails isAPIEvent
\* leaves the buffer as it was.
C30_BuffersKeepTheNewest ==
  /\ Len(state.events) <= EventsCapacity
  /\ state.events = Newest(dispatched, EventsCapacity)
  /\ RejectedLeavesEvents
  /\ FeedIsBounded

\* C30 amended: state.events holds the most recent valid events dispatched
\* since the last RESET_STATE, at most 100 of them, newest first; the EventLog
\* feed holds the most recent 50 valid events handed to it; a value that fails
\* isAPIEvent leaves the buffer as it was.
C30_BuffersKeepTheNewestSinceReset ==
  /\ Len(state.events) <= EventsCapacity
  /\ state.events = Newest(Newest(dispatched, sinceReset), EventsCapacity)
  /\ RejectedLeavesEvents
  /\ FeedIsBounded

C30_Witness ==
  /\ ret.op = "ADD_EVENT"
  /\ Len(feed) = FeedCapacity
  /\ Len(handled) > FeedCapacity
  /\ isAPIEvent(ret.input)
  /\ Len(dispatched) > sinceReset
  /\ sinceReset > EventsCapacity
  /\ Len(ret.before) = EventsCapacity
  /\ state.events[1] = ret.input
  /\ state.events[EventsCapacity] = ret.before[EventsCapacity - 1]
  /\ state.events[EventsCapacity] # dispatched[sinceReset]

====
